---- MODULE Spec2Model ----
(***************************************************************************)
(* Control plane of the voice-agent platform: the session registry         *)
(* (control_plane/session.py), the control-plane event emitter             *)
(* (control_plane/events.py), the LiveKit webhook handler                  *)
(* (control_plane/webhook_handler.py) and the POST /webhook endpoint       *)
(* (control_plane/webhook_server.py).                                      *)
(*                                                                         *)
(* The endpoint is an `async def` whose only suspension point is           *)
(* `await request.body()`; the handler it then calls is synchronous, so    *)
(* on the single event loop every request is handled in one step, and      *)
(* "parallel" requests are requests handled in either order.               *)
(*                                                                         *)
(* Voice pipeline: the VoicePipelineObserver                               *)
(* (voice_pipeline/observability.py) with its signal handlers and its      *)
(* timer tasks, the entrypoint's arming of the timers                      *)
(* (voice_pipeline/agent.py) and the hangup request                        *)
(* (voice_pipeline/control_plane_client.py).  A signal handler is          *)
(* synchronous and is one step; a timer task is an asyncio task and takes  *)
(* one step from each `await` to the next.  Task.cancel() raises           *)
(* CancelledError at the task's current await: `except Exception` does     *)
(* not catch it, `finally` blocks run.                                     *)
(*                                                                         *)
(* Observability and control API: the event store and its query            *)
(* (observability/event_store.py), the emitter that feeds it               *)
(* (observability/events.py), the hangup endpoint                          *)
(* (control_plane/control_api.py), which is one step up to its             *)
(* `await _delete_room` and one step after it, and the provider error      *)
(* handler (control_plane/errors.py).  The control plane and the agent     *)
(* worker are separate processes, each with its own event store.           *)
(*                                                                         *)
(* The error classifier reads the text of the exception, so errors are     *)
(* modelled with their class and argument and texts as sequences of        *)
(* characters.  A write to stdout returns or raises; neither emitter       *)
(* catches what it raises.                                                 *)
(***************************************************************************)
EXTENDS Integers, Sequences, FiniteSets, TLC

\* Python's None / an absent JSON key / an empty string (all falsy).
None == "None"

----------------------------------------------------------------------------
\* Bounds of the model.

\* Number of POST /webhook requests delivered in one behaviour.
MaxWebhooks == 3
\* Number of operations (direct calls of the registry API and webhooks) in
\* one behaviour of SpecRegistry.
MaxCalls == 3

\* Every step adds at most one session.
MaxSessions == MaxWebhooks + MaxCalls

\* Number of signals the agent session delivers to the Observer in one
\* behaviour of SpecTurns.
MaxTurnSignals == 4
\* Number of signals the agent session delivers to the Observer in one
\* behaviour of SpecSilence (the entrypoint's arming and the steps of the
\* timer tasks come on top).
MaxSilenceSignals == 2

\* Number of signals the agent session delivers to the Observer in one
\* behaviour of SpecProcessing.
MaxProcessingSignals == 4

\* Number of signals the agent session delivers to the Observer in one
\* behaviour of SpecGuard.
MaxGuardSignals == 3

\* Number of signals the agent session delivers to the Observer in one
\* behaviour of SpecBargeIn.
MaxBargeInSignals == 5

\* Capacity of the event store (max_events; the code's default is 10,000).
MaxEvents == 2
\* Number of events emitted into the event store in one behaviour of
\* SpecStore.
MaxStores == 3

\* Number of requests and provider errors the control plane handles in one
\* behaviour of SpecControl.
MaxControl == 3

\* Hangup requests received over a stdout that can fail.
MaxSinkRequests == 2

\* Number of calls of the classifier on one error in one behaviour of
\* SpecClassify.
MaxClassify == 2

\* Number of signals delivered in one behaviour of SpecEnding.
MaxEndingSignals == 2

\* Inputs.
Rooms == {"R1", "R2"}
Sids == {"P1", "P2"}
PhoneNumbers == {"N1"}
EndReasons == {"participant_left", "room_finished"}

----------------------------------------------------------------------------
\* SessionState (session.py:12-20).

CREATED == "created"
DIALING == "dialing"
RINGING == "ringing"
INBOUND_RINGING == "inbound_ringing"
CONNECTED == "connected"
ENDING == "ending"
ENDED == "ended"

SessionState == {CREATED, DIALING, RINGING, INBOUND_RINGING, CONNECTED, ENDING, ENDED}

----------------------------------------------------------------------------
\* An Optional[datetime]: Null for None, At(t) for the time t.
Null == <<>>
At(t) == <<t>>

\* Session (session.py:23-72).  `trail` lists every state the session was
\* given, in order: its initial state and each transition_to.

Session(state, direction, caller, callee, now) ==
    [ state |-> state,
      direction |-> direction,
      created_at |-> At(now),
      livekit_room |-> None,
      livekit_participant |-> None,
      caller_number |-> caller,
      callee_number |-> callee,
      ended_at |-> Null,
      end_reason |-> None,
      trail |-> <<state>> ]

transition_to(s, new_state) ==
    [s EXCEPT !.state = new_state, !.trail = Append(@, new_state)]

\* Mutant of end: goes to ended without passing through ending.
end_direct(s, reason, now) ==
    [transition_to(s, ENDED) EXCEPT !.ended_at = At(now), !.end_reason = reason]

end(s, reason, now) ==
    LET a == transition_to(s, ENDING)
        b == transition_to(a, ENDED)
    IN  [b EXCEPT !.ended_at = At(now), !.end_reason = reason]

\* Mutant of is_terminal: no state counts as terminal.
is_terminal_never(s) == FALSE

is_terminal(s) == s.state = ENDED

\* SessionManager (session.py:75-137).  The registry is a dict in insertion
\* order; session_id is a fresh uuid4, modelled as the position in the dict.
create_session(sessions, direction, caller, callee, now) ==
    Append(sessions,
           Session(IF direction = "inbound" THEN INBOUND_RINGING ELSE CREATED,
                   direction, caller, callee, now))

\* Mutant of get_session_by_room: looks at the newest session only.
get_session_by_room_newest(sessions, room_name) ==
    IF Len(sessions) > 0 /\ sessions[Len(sessions)].livekit_room = room_name
    THEN Len(sessions)
    ELSE 0

\* The session_id of the first session that has the room, 0 for None.
get_session_by_room(sessions, room_name) ==
    IF \E i \in 1..Len(sessions) : sessions[i].livekit_room = room_name
    THEN CHOOSE i \in 1..Len(sessions) :
            /\ sessions[i].livekit_room = room_name
            /\ \A j \in 1..(i - 1) : sessions[j].livekit_room # room_name
    ELSE 0

----------------------------------------------------------------------------
\* EventEmitter of the control plane (control_plane/events.py).

Event(event_type, session_id) ==
    [ event_type |-> event_type,
      session_id |-> session_id,
      component |-> "control_plane",
      severity |-> "info",
      correlation_id |-> session_id,
      direction |-> None,
      reason |-> None,
      from_state |-> None,
      to_state |-> None,
      room |-> None,
      participant |-> None,
      track |-> None,
      category |-> None,
      detail |-> None ]

emit(events, ev) == Append(events, ev)

call_started(events, session_id, direction, livekit_room) ==
    emit(events, [Event("call.started", session_id) EXCEPT
                    !.direction = direction, !.room = livekit_room])

call_answered(events, session_id, livekit_room, livekit_participant) ==
    emit(events, [Event("call.answered", session_id) EXCEPT
                    !.room = livekit_room, !.participant = livekit_participant])

call_ended(events, session_id, reason, livekit_room, livekit_participant) ==
    emit(events, [Event("call.ended", session_id) EXCEPT
                    !.reason = reason, !.room = livekit_room,
                    !.participant = livekit_participant])

session_state_changed(events, session_id, from_state, to_state) ==
    emit(events, [Event("session.state_changed", session_id) EXCEPT
                    !.from_state = from_state, !.to_state = to_state])

livekit_room_created(events, session_id, room) ==
    emit(events, [Event("livekit.room.created", session_id) EXCEPT !.room = room])

livekit_participant_joined(events, session_id, room, participant) ==
    emit(events, [Event("livekit.participant.joined", session_id) EXCEPT
                    !.room = room, !.participant = participant])

livekit_participant_left(events, session_id, room, participant) ==
    emit(events, [Event("livekit.participant.left", session_id) EXCEPT
                    !.room = room, !.participant = participant])

----------------------------------------------------------------------------
\* Strings the handler inspects are sequences of characters.

LowerChar(c) ==
    CASE c = "A" -> "a"
      [] c = "B" -> "b"
      [] c = "C" -> "c"
      [] c = "D" -> "d"
      [] c = "E" -> "e"
      [] c = "F" -> "f"
      [] c = "G" -> "g"
      [] c = "H" -> "h"
      [] c = "I" -> "i"
      [] c = "J" -> "j"
      [] c = "K" -> "k"
      [] c = "L" -> "l"
      [] c = "M" -> "m"
      [] c = "N" -> "n"
      [] c = "O" -> "o"
      [] c = "P" -> "p"
      [] c = "Q" -> "q"
      [] c = "R" -> "r"
      [] c = "S" -> "s"
      [] c = "T" -> "t"
      [] c = "U" -> "u"
      [] c = "V" -> "v"
      [] c = "W" -> "w"
      [] c = "X" -> "x"
      [] c = "Y" -> "y"
      [] c = "Z" -> "z"
      [] OTHER -> c

lower(s) == [i \in 1..Len(s) |-> LowerChar(s[i])]

startswith(s, prefix) ==
    Len(s) >= Len(prefix) /\ SubSeq(s, 1, Len(prefix)) = prefix

contains(s, sub) ==
    \E i \in 0..(Len(s) - Len(sub)) : SubSeq(s, i + 1, i + Len(sub)) = sub

SipIdentity == <<"s", "i", "p", ":", "+", "3", "1">>
PhoneIdentity == <<"P", "h", "o", "n", "e", "-", "1">>
AgentIdentity == <<"a", "g", "e", "n", "t">>
Identities == {SipIdentity, PhoneIdentity, AgentIdentity}
\* participant.get("identity", "") of a body without identity.
NoIdentity == <<>>

\* webhook_handler.py:125
is_caller_identity(participant_identity) ==
    \/ startswith(participant_identity, <<"s", "i", "p", ":">>)
    \/ contains(lower(participant_identity), <<"p", "h", "o", "n", "e">>)

\* participant.metadata: absent or empty, a JSON object (phone_number None
\* when it lacks the key), or a string that is not JSON.
NoMetadata == [kind |-> "absent", phone_number |-> None]
GarbageMetadata == [kind |-> "garbage", phone_number |-> None]
JsonMetadata(n) == [kind |-> "json", phone_number |-> n]
Metadatas ==
    {NoMetadata, GarbageMetadata} \cup {JsonMetadata(n) : n \in PhoneNumbers \cup {None}}

\* webhook_handler.py:132-139: the caller_number after reading the metadata.
caller_number_from(metadata, current) ==
    IF metadata.kind = "json" /\ metadata.phone_number # None
    THEN metadata.phone_number
    ELSE current

----------------------------------------------------------------------------
\* WebhookHandler (webhook_handler.py).  A world w is the pair of the
\* registry's sessions and the emitted events; event_data is the parsed body.

EventData(event, room, sid, identity, metadata, track) ==
    [ event |-> event, room |-> room, sid |-> sid, identity |-> identity,
      metadata |-> metadata, track |-> track ]

\* Mutant of handle_room_started: announces the call again for a room that
\* already has a session.
handle_room_started_reannounce(w, ed, now) ==
    IF ed.room = None THEN w
    ELSE LET sid == get_session_by_room(w.sessions, ed.room) IN
         IF sid = 0
         THEN LET created == create_session(w.sessions, "inbound", None, None, now)
                  new_id == Len(created)
              IN  [ sessions |-> [created EXCEPT ![new_id].livekit_room = ed.room],
                    events |-> call_started(
                                  livekit_room_created(w.events, new_id, ed.room),
                                  new_id, "inbound", ed.room) ]
         ELSE [w EXCEPT !.events = call_started(
                                      livekit_room_created(@, sid, ed.room),
                                      sid, "inbound", ed.room)]

handle_room_started(w, ed, now) ==
    IF ed.room = None THEN w
    ELSE LET sid == get_session_by_room(w.sessions, ed.room) IN
         IF sid = 0
         THEN LET created == create_session(w.sessions, "inbound", None, None, now)
                  new_id == Len(created)
              IN  [ sessions |-> [created EXCEPT ![new_id].livekit_room = ed.room],
                    events |-> call_started(
                                  livekit_room_created(w.events, new_id, ed.room),
                                  new_id, "inbound", ed.room) ]
         ELSE [w EXCEPT !.events = livekit_room_created(@, sid, ed.room)]

\* Mutant of handle_participant_joined: records the caller also when the
\* session already has a participant.
handle_participant_joined_overwrite(w, ed, now) ==
    IF ed.room = None \/ ed.sid = None THEN w
    ELSE LET found == get_session_by_room(w.sessions, ed.room)
             created == create_session(w.sessions, "inbound", None, None, now)
             w1 == IF found = 0
                   THEN [ sessions |-> [created EXCEPT ![Len(created)].livekit_room = ed.room],
                          events |-> call_started(w.events, Len(created), "inbound", ed.room) ]
                   ELSE w
             sid == IF found = 0 THEN Len(created) ELSE found
             s == w1.sessions[sid]
             record == is_caller_identity(ed.identity)
             s1 == IF record
                   THEN [s EXCEPT !.livekit_participant = ed.sid,
                                  !.caller_number = caller_number_from(ed.metadata, @)]
                   ELSE s
             connect == record /\ s.state = INBOUND_RINGING
             s2 == IF connect THEN transition_to(s1, CONNECTED) ELSE s1
             e1 == IF connect
                   THEN call_answered(
                            session_state_changed(w1.events, sid, s1.state, CONNECTED),
                            sid, ed.room, ed.sid)
                   ELSE w1.events
         IN  [ sessions |-> [w1.sessions EXCEPT ![sid] = s2],
               events |-> livekit_participant_joined(e1, sid, ed.room, ed.sid) ]

handle_participant_joined(w, ed, now) ==
    IF ed.room = None \/ ed.sid = None THEN w
    ELSE LET found == get_session_by_room(w.sessions, ed.room)
             created == create_session(w.sessions, "inbound", None, None, now)
             w1 == IF found = 0
                   THEN [ sessions |-> [created EXCEPT ![Len(created)].livekit_room = ed.room],
                          events |-> call_started(w.events, Len(created), "inbound", ed.room) ]
                   ELSE w
             sid == IF found = 0 THEN Len(created) ELSE found
             s == w1.sessions[sid]
             record == is_caller_identity(ed.identity) /\ s.livekit_participant = None
             s1 == IF record
                   THEN [s EXCEPT !.livekit_participant = ed.sid,
                                  !.caller_number = caller_number_from(ed.metadata, @)]
                   ELSE s
             connect == record /\ s.state = INBOUND_RINGING
             s2 == IF connect THEN transition_to(s1, CONNECTED) ELSE s1
             e1 == IF connect
                   THEN call_answered(
                            session_state_changed(w1.events, sid, s1.state, CONNECTED),
                            sid, ed.room, ed.sid)
                   ELSE w1.events
         IN  [ sessions |-> [w1.sessions EXCEPT ![sid] = s2],
               events |-> livekit_participant_joined(e1, sid, ed.room, ed.sid) ]

\* Mutant of handle_participant_left: ends the call when any participant
\* leaves.
handle_participant_left_any(w, ed, now) ==
    IF ed.room = None \/ ed.sid = None THEN w
    ELSE LET sid == get_session_by_room(w.sessions, ed.room) IN
         IF sid = 0 THEN w
         ELSE LET s == w.sessions[sid]
                  e1 == livekit_participant_left(w.events, sid, ed.room, ed.sid)
              IN  IF ~is_terminal(s)
                  THEN [ sessions |-> [w.sessions EXCEPT ![sid] = end(s, "participant_left", now)],
                         events |-> call_ended(e1, sid, "participant_left", ed.room, ed.sid) ]
                  ELSE [w EXCEPT !.events = e1]

handle_participant_left(w, ed, now) ==
    IF ed.room = None \/ ed.sid = None THEN w
    ELSE LET sid == get_session_by_room(w.sessions, ed.room) IN
         IF sid = 0 THEN w
         ELSE LET s == w.sessions[sid]
                  e1 == livekit_participant_left(w.events, sid, ed.room, ed.sid)
              IN  IF s.livekit_participant = ed.sid /\ ~is_terminal(s)
                  THEN [ sessions |-> [w.sessions EXCEPT ![sid] = end(s, "participant_left", now)],
                         events |-> call_ended(e1, sid, "participant_left", ed.room, ed.sid) ]
                  ELSE [w EXCEPT !.events = e1]

handle_track_published(w, ed, now) ==
    IF ed.room = None THEN w
    ELSE LET sid == get_session_by_room(w.sessions, ed.room) IN
         IF sid = 0 THEN w
         ELSE [w EXCEPT !.events =
                  emit(@, [Event("livekit.track.published", sid) EXCEPT
                              !.room = ed.room, !.participant = ed.sid,
                              !.track = ed.track])]

\* room_finished ends the session it finds without asking is_terminal.
handle_room_finished_unguarded(w, ed, now) ==
    IF ed.room = None THEN w
    ELSE LET sid == get_session_by_room(w.sessions, ed.room) IN
         IF sid # 0
         THEN [ sessions |-> [w.sessions EXCEPT ![sid] = end(@, "room_finished", now)],
                events |-> call_ended(w.events, sid, "room_finished", ed.room, None) ]
         ELSE w

handle_room_finished(w, ed, now) ==
    IF ed.room = None THEN w
    ELSE LET sid == get_session_by_room(w.sessions, ed.room) IN
         IF sid # 0 /\ ~is_terminal(w.sessions[sid])
         THEN [ sessions |-> [w.sessions EXCEPT ![sid] = end(@, "room_finished", now)],
                events |-> call_ended(w.events, sid, "room_finished", ed.room, None) ]
         ELSE w

\* webhook_handler.py:23-35: the signature check is a placeholder.
verify_webhook(body, auth_header) == TRUE

\* A body is the JSON text of an event_data, or text that does not parse.
JsonBody(ed) == [json |-> TRUE, data |-> ed]
InvalidBody ==
    [json |-> FALSE, data |-> EventData(None, None, None, NoIdentity, NoMetadata, None)]

handle_webhook(w, body, auth_header, now) ==
    IF ~verify_webhook(body, auth_header)
    THEN [w |-> w, result |-> "error"]
    ELSE IF ~body.json
    THEN [w |-> w, result |-> "error"]
    ELSE LET ed == body.data
             event_type == ed.event
         IN  [ w |-> CASE event_type = "room_started" -> handle_room_started(w, ed, now)
                       [] event_type = "participant_joined" -> handle_participant_joined(w, ed, now)
                       [] event_type = "participant_left" -> handle_participant_left(w, ed, now)
                       [] event_type = "track_published" -> handle_track_published(w, ed, now)
                       [] event_type = "room_finished" -> handle_room_finished(w, ed, now)
                       [] OTHER -> w,
               result |-> "ok" ]

\* POST /webhook (webhook_server.py:15-98).  The HTTPException(400) raised for
\* an error result is raised inside the try block, so the `except Exception`
\* around it answers 500.
post_webhook(w, req, now) ==
    IF req.auth = None
    THEN [w |-> w, status |-> 401]
    ELSE LET r == handle_webhook(w, req.body, req.auth, now) IN
         IF r.result = "error"
         THEN [w |-> r.w, status |-> 500]
         ELSE [w |-> r.w, status |-> 200]

----------------------------------------------------------------------------
\* The requests the provider (or anyone else) may send.

RoomStartedBodies ==
    {JsonBody(EventData("room_started", r, None, NoIdentity, NoMetadata, None)) :
        r \in Rooms \cup {None}}

ParticipantJoinedBodies ==
    {JsonBody(EventData("participant_joined", r, p, i, m, None)) :
        r \in Rooms, p \in Sids, i \in Identities, m \in Metadatas}
    \cup {JsonBody(EventData("participant_joined", None, p, SipIdentity, NoMetadata, None)) :
            p \in Sids}
    \cup {JsonBody(EventData("participant_joined", r, None, SipIdentity, NoMetadata, None)) :
            r \in Rooms}

ParticipantLeftBodies ==
    {JsonBody(EventData("participant_left", r, p, NoIdentity, NoMetadata, None)) :
        r \in Rooms \cup {None}, p \in Sids \cup {None}}

TrackPublishedBodies ==
    {JsonBody(EventData("track_published", r, p, NoIdentity, NoMetadata, "T1")) :
        r \in Rooms \cup {None}, p \in Sids}

RoomFinishedBodies ==
    {JsonBody(EventData("room_finished", r, None, NoIdentity, NoMetadata, None)) :
        r \in Rooms \cup {None}}

OtherBodies ==
    {InvalidBody,
     JsonBody(EventData("egress_started", "R1", None, NoIdentity, NoMetadata, None))}

\* An Authorization header that is present: a token the provider signed for
\* this body, or one that fails signature verification.
Auths == {"signed", "forged"}

Request(auth, body) == [auth |-> auth, body |-> body]

\* What identifies a request in the log.
Summary(req) ==
    [ auth |-> req.auth, event |-> req.body.data.event,
      room |-> req.body.data.room, sid |-> req.body.data.sid ]

----------------------------------------------------------------------------
\* The per-call Observer (voice_pipeline/observability.py).
\*
\* The Observer runs on one asyncio event loop: a signal handler runs to
\* completion, and a timer task runs from one await to the next, without
\* anything else of the same call running in between.  Task.cancel() on a
\* suspended task raises CancelledError at its await when the loop next runs
\* it; CancelledError is a BaseException, so `except Exception` does not
\* catch it and only `finally` blocks and `except asyncio.CancelledError`
\* run.

\* SilenceConfig (observability.py:30-36) and max_duration_seconds.
Config(reprompt_ms, close_ms, max_duration_seconds) ==
    [ processing_delay_ack_ms |-> 900,
      user_silence_reprompt_ms |-> reprompt_ms,
      user_silence_close_ms |-> close_ms,
      max_duration_seconds |-> max_duration_seconds ]

DefaultConfig == Config(7000, 14000, 300)

\* The user-silence policies, each with the duration guard disabled
\* (MAX_CALL_DURATION_SECONDS = 0): reprompt then close, close-only with
\* CLOSE = REPROMPT, and close-only with CLOSE < REPROMPT.
SilencePolicies == {Config(7000, 14000, 0), Config(7000, 7000, 0), Config(7000, 1000, 0)}

\* The settings of MAX_CALL_DURATION_SECONDS: guard disabled, a call shorter
\* than the warning's lead of 20 seconds, exactly the lead, and the default.
GuardPolicies == {Config(7000, 14000, m) : m \in {0, 10, 20, 300}}

\* The fixed phrases (the closing phrase's "Oke" stands for the source's
\* accented spelling).
DelayAckPhrase == "Momentje, ik denk even mee."
RepromptPhrase == "Ben je er nog?"
ClosingPhrase == "Oke, ik hoor even niks. Ik hang op. Fijne dag!"
WarningPhrase == "De maximale gesprekduur is bijna bereikt, het gesprek wordt over 15 seconde afgebroken"

\* current_turn_id is None; turn ids are the positive clock readings
\* (f"turn_{int(now * 1000)}").
NoTurn == 0
\* The session id used as correlation id (`current_turn_id or session_id`).
SessionCorr == 0
or_session_id(turn_id) == IF turn_id = NoTurn THEN SessionCorr ELSE turn_id

\* No task (a timer field that is None) and the handler context (code that
\* runs in a signal handler or in the entrypoint, not in a timer task).
NoTask == 0

\* What the Observer does to the outside: an event it emits, or its call of
\* session.say, request_hangup, session.aclose or the injected sleep.  `by`
\* is the timer task that did it, NoTask for a signal handler or the
\* entrypoint; `ts` is the clock reading at that moment (the ts of the event
\* envelope), `closed` whether close had been handled by then, and `ms` the
\* time_to_tts_stop_ms of a tts.stopped or the milliseconds of a sleep.
Output(op, name, corr, arg, ms, by, ts, closed) ==
    [op |-> op, name |-> name, corr |-> corr, arg |-> arg, ms |-> ms, by |-> by,
     ts |-> ts, closed |-> closed]

\* A timer task: the coroutine it runs, the await it is suspended at ("done"
\* and "cancelled" when it is over), the started_turn it captured, its local
\* cp_ok ("True" or "False" once request_hangup returned), the clock reading
\* when it was created, and what it did to the outside, in order.
Task(kind, pc, started_turn, armed_at) ==
    [kind |-> kind, pc |-> pc, started_turn |-> started_turn, cp_ok |-> None,
     armed_at |-> armed_at, out |-> <<>>]

Over == {"done", "cancelled"}

\* VoicePipelineObserver.__init__ (observability.py:48-100), attached to a
\* session (attach_to_session, 102-122; agent.py attaches before the session
\* starts).  `now` is the reading of the injected clock, `closed` whether
\* close has been handled, `last_signal` the signal handled last, `tasks`
\* the timer tasks created so far and `out` what the signal handlers and the
\* entrypoint did to the outside, in order.
VoicePipelineObserver(cfg) ==
    [ silence |-> cfg,
      now |-> 1,
      current_turn_id |-> NoTurn,
      user_last_audio_ts |-> Null,
      last_user_activity_ts |-> Null,
      stt_final_emitted_for_turn |-> FALSE,
      llm_request_ts |-> Null,
      current_transcript |-> None,
      current_llm_response |-> None,
      tts_playing |-> FALSE,
      barge_in_detected_ts |-> Null,
      tts_started_ts |-> Null,
      processing_timer |-> NoTask,
      user_silence_timer |-> NoTask,
      delay_ack_sent_for_turn |-> FALSE,
      last_agent_prompt_ts |-> Null,
      call_start_ts |-> Null,
      duration_warning_task |-> NoTask,
      duration_timeout_task |-> NoTask,
      session |-> "attached",
      closed |-> FALSE,
      last_signal |-> None,
      tasks |-> <<>>,
      out |-> <<>> ]

\* The output joins the record of the context that made it.
put(o, by, output) ==
    IF by = NoTask
    THEN [o EXCEPT !.out = Append(@, output)]
    ELSE [o EXCEPT !.tasks[by].out = Append(@, output)]

\* EventEmitter.emit as the Observer uses it.
emitter_emit_ms(o, by, event_type, corr, arg, ms) ==
    put(o, by, Output("emit", event_type, corr, arg, ms, by, o.now, o.closed))

emitter_emit(o, by, event_type, corr, arg) ==
    emitter_emit_ms(o, by, event_type, corr, arg, Null)

\* A call of session.say, request_hangup or session.aclose is made.
call_out(o, by, op, name) ==
    put(o, by, Output(op, name, SessionCorr, None, Null, by, o.now, o.closed))

\* The task t calls the injected sleep.
sleep(o, t, ms) ==
    put(o, t, Output("sleep", None, SessionCorr, None, At(ms), t, o.now, o.closed))

\* loop.create_task: the new task, suspended at its first await, a sleep of
\* ms milliseconds.
create_task(o, kind, pc, started_turn, ms) ==
    LET o1 == [o EXCEPT !.tasks = Append(@, Task(kind, pc, started_turn, o.now))]
    IN sleep(o1, Len(o1.tasks), ms)

\* Task.cancel().  A task that is over is left alone.  The processing timer
\* suspended in say has a finally block still to run; every other await has
\* no handler that does anything.
cancel(o, t) ==
    IF t = NoTask \/ o.tasks[t].pc \in Over \cup {"cancelled_in_say"}
    THEN o
    ELSE IF o.tasks[t].kind = "processing" /\ o.tasks[t].pc = "say"
         THEN [o EXCEPT !.tasks[t].pc = "cancelled_in_say"]
         ELSE [o EXCEPT !.tasks[t].pc = "cancelled"]

\* _new_turn (138-143).
new_turn(o) ==
    [o EXCEPT !.current_turn_id = o.now,
              !.stt_final_emitted_for_turn = FALSE,
              !.delay_ack_sent_for_turn = FALSE]

\* `self.current_turn_id or self._new_turn()`.
current_or_new_turn(o) == IF o.current_turn_id = NoTurn THEN new_turn(o) ELSE o

\* _emit_turn_started (145-191).
emit_turn_started(o) ==
    LET o1 == current_or_new_turn(o)
        o2 == emitter_emit(o1, NoTask, "turn.started", o1.current_turn_id, None)
        o3 == [o2 EXCEPT !.llm_request_ts = At(o.now)]
    IN emitter_emit(o3, NoTask, "llm.request", o1.current_turn_id, o3.current_transcript)

\* _emit_llm_response (193-238).
emit_llm_response(o) ==
    LET o1 == current_or_new_turn(o)
        o2 == [o1 EXCEPT !.llm_request_ts = Null]
    IN emitter_emit(o2, NoTask, "llm.response", o1.current_turn_id, o2.current_llm_response)

\* set_llm_response_text (240-247).
set_llm_response_text(o, text) ==
    LET o1 == [o EXCEPT !.current_llm_response = text]
    IN IF o1.llm_request_ts # Null THEN emit_llm_response(o1) ELSE o1

\* _emit_stt_final (249-284).
emit_stt_final(o) ==
    LET o1 == current_or_new_turn(o)
    IN IF o1.stt_final_emitted_for_turn
       THEN o1
       ELSE emitter_emit([o1 EXCEPT !.stt_final_emitted_for_turn = TRUE],
                         NoTask, "stt.final", o1.current_turn_id, o1.current_transcript)

\* _cancel_processing_timer (579-582).
cancel_processing_timer(o) ==
    [cancel(o, o.processing_timer) EXCEPT !.processing_timer = NoTask]

\* _cancel_user_silence_timer (643-646).
cancel_user_silence_timer(o) ==
    [cancel(o, o.user_silence_timer) EXCEPT !.user_silence_timer = NoTask]

\* _cancel_duration_timers (805-815).
cancel_duration_timers(o) ==
    [cancel(cancel(o, o.duration_warning_task), o.duration_timeout_task)
        EXCEPT !.duration_warning_task = NoTask, !.duration_timeout_task = NoTask]

\* Mutant of _record_user_activity: notes the time and leaves the timer alone.
record_user_activity_no_cancel(o) ==
    [o EXCEPT !.last_user_activity_ts = At(o.now)]

\* _record_user_activity (648-652).
record_user_activity(o) ==
    cancel_user_silence_timer([o EXCEPT !.last_user_activity_ts = At(o.now)])

\* _is_user_silent_since (654-661), behind the `_last_agent_prompt_ts is not
\* None` test of its three callers.
is_user_silent_since_prompt(o) ==
    /\ o.last_agent_prompt_ts # Null
    /\ \/ o.last_user_activity_ts = Null
       \/ o.last_user_activity_ts[1] <= o.last_agent_prompt_ts[1]

\* _start_processing_timer (515-577), called in the context `by`.
start_processing_timer(o, by) ==
    LET o1 == cancel_processing_timer(o)
        o2 == emitter_emit(o1, by, "silence.timer_started",
                           or_session_id(o1.current_turn_id), "processing")
        o3 == create_task(o2, "processing", "sleep", NoTurn,
                          o.silence.processing_delay_ack_ms)
    IN [o3 EXCEPT !.processing_timer = Len(o3.tasks)]

\* Mutant of _start_user_silence_timer: closes without reprompt only when
\* CLOSE < REPROMPT.
start_user_silence_timer_strict(o, by) ==
    LET o1 == cancel_user_silence_timer(o)
        o2 == [o1 EXCEPT !.last_agent_prompt_ts = At(o.now)]
        started_turn == or_session_id(o2.current_turn_id)
        o3 == emitter_emit(o2, by, "silence.timer_started", started_turn, "user")
        o4 == IF o.silence.user_silence_close_ms < o.silence.user_silence_reprompt_ms
              THEN create_task(o3, "user_silence", "sleep_close", started_turn,
                               o.silence.user_silence_close_ms)
              ELSE create_task(o3, "user_silence", "sleep_reprompt", started_turn,
                               o.silence.user_silence_reprompt_ms)
    IN [o4 EXCEPT !.user_silence_timer = Len(o4.tasks)]

\* _start_user_silence_timer (584-641), called in the context `by`.  The
\* new task first sleeps CLOSE_MS under a close-only policy and REPROMPT_MS
\* otherwise.
start_user_silence_timer(o, by) ==
    LET o1 == cancel_user_silence_timer(o)
        o2 == [o1 EXCEPT !.last_agent_prompt_ts = At(o.now)]
        started_turn == or_session_id(o2.current_turn_id)
        o3 == emitter_emit(o2, by, "silence.timer_started", started_turn, "user")
        o4 == IF o.silence.user_silence_close_ms <= o.silence.user_silence_reprompt_ms
              THEN create_task(o3, "user_silence", "sleep_close", started_turn,
                               o.silence.user_silence_close_ms)
              ELSE create_task(o3, "user_silence", "sleep_reprompt", started_turn,
                               o.silence.user_silence_reprompt_ms)
    IN [o4 EXCEPT !.user_silence_timer = Len(o4.tasks)]

\* arm_user_silence_timer (124-134).
arm_user_silence_timer(o) ==
    start_user_silence_timer([o EXCEPT !.last_agent_prompt_ts = At(o.now)], NoTask)

\* arm_call_duration_timer without the test `if warning_delay > 0` (719).
arm_call_duration_timer_always_warns(o) ==
    IF o.silence.max_duration_seconds <= 0
    THEN o
    ELSE LET o1 == cancel_duration_timers([o EXCEPT !.call_start_ts = At(o.now)])
             o2 == emitter_emit(o1, NoTask, "call.duration_timer_started", SessionCorr, None)
             delay == IF o.silence.max_duration_seconds - 20 > 0
                      THEN o.silence.max_duration_seconds - 20 ELSE 0
             c == create_task(o2, "duration_warning", "sleep", NoTurn, delay * 1000)
             o3 == [c EXCEPT !.duration_warning_task = Len(c.tasks)]
             o4 == create_task(o3, "duration_timeout", "sleep", NoTurn,
                               o.silence.max_duration_seconds * 1000)
         IN [o4 EXCEPT !.duration_timeout_task = Len(o4.tasks)]

\* arm_call_duration_timer (689-749).  The warning task sleeps MAX_S - 20
\* seconds and the timeout task MAX_S seconds.
arm_call_duration_timer(o) ==
    IF o.silence.max_duration_seconds <= 0
    THEN o
    ELSE LET o1 == cancel_duration_timers([o EXCEPT !.call_start_ts = At(o.now)])
             o2 == emitter_emit(o1, NoTask, "call.duration_timer_started", SessionCorr, None)
             o3 == IF o.silence.max_duration_seconds - 20 > 0
                   THEN LET c == create_task(o2, "duration_warning", "sleep", NoTurn,
                                             (o.silence.max_duration_seconds - 20) * 1000)
                        IN [c EXCEPT !.duration_warning_task = Len(c.tasks)]
                   ELSE o2
             o4 == create_task(o3, "duration_timeout", "sleep", NoTurn,
                               o.silence.max_duration_seconds * 1000)
         IN [o4 EXCEPT !.duration_timeout_task = Len(o4.tasks)]

\* _on_user_started_speaking without the test of tts_playing (300).
on_user_started_speaking_always_detects(o) ==
    LET o1 == record_user_activity(o)
        o2 == emitter_emit([o1 EXCEPT !.barge_in_detected_ts = At(o.now)], NoTask,
                           "barge_in.detected", or_session_id(o1.current_turn_id), None)
    IN cancel_user_silence_timer(o2)

\* _on_user_started_speaking (297-310).
on_user_started_speaking(o) ==
    LET o1 == record_user_activity(o)
        o2 == IF o1.tts_playing
              THEN emitter_emit([o1 EXCEPT !.barge_in_detected_ts = At(o.now)], NoTask,
                                "barge_in.detected", or_session_id(o1.current_turn_id), None)
              ELSE o1
    IN cancel_user_silence_timer(o2)

\* _on_user_stopped_speaking (312-314).
on_user_stopped_speaking(o) ==
    [record_user_activity(o) EXCEPT !.user_last_audio_ts = At(o.now)]

\* _on_user_speech_committed (316-338).
on_user_speech_committed(o, text) ==
    LET o1 == record_user_activity(new_turn(o))
        o2 == [o1 EXCEPT !.current_transcript = text]
    IN emit_turn_started(emit_stt_final(o2))

\* _on_agent_started_speaking without the cancellation of line 345.
on_agent_started_speaking_keeps_timer(o, text) ==
    LET o1 == [o EXCEPT !.tts_playing = TRUE]
        o2 == IF text # None
              THEN LET r == [o1 EXCEPT !.current_llm_response = text]
                   IN IF r.llm_request_ts # Null THEN emit_llm_response(r) ELSE r
              ELSE o1
        o3 == [cancel_processing_timer(o2) EXCEPT !.tts_started_ts = At(o.now)]
    IN emitter_emit(o3, NoTask, "tts.started", or_session_id(o3.current_turn_id),
                    o3.current_llm_response)

\* _on_agent_started_speaking (340-382).
on_agent_started_speaking(o, text) ==
    LET o1 == cancel_user_silence_timer([o EXCEPT !.tts_playing = TRUE])
        o2 == IF text # None
              THEN LET r == [o1 EXCEPT !.current_llm_response = text]
                   IN IF r.llm_request_ts # Null THEN emit_llm_response(r) ELSE r
              ELSE o1
        o3 == [cancel_processing_timer(o2) EXCEPT !.tts_started_ts = At(o.now)]
    IN emitter_emit(o3, NoTask, "tts.started", or_session_id(o3.current_turn_id),
                    o3.current_llm_response)

\* _on_agent_stopped_speaking (384-436).
on_agent_stopped_speaking(o, cause) ==
    LET o1 == [o EXCEPT !.tts_playing = FALSE]
        measured == cause = "barge_in" /\ o1.barge_in_detected_ts # Null
        ms == IF measured THEN At(o.now - o1.barge_in_detected_ts[1]) ELSE Null
        o2 == [o1 EXCEPT !.barge_in_detected_ts = IF measured THEN Null ELSE @,
                         !.tts_started_ts = Null]
        o3 == emitter_emit_ms(o2, NoTask, "tts.stopped", or_session_id(o2.current_turn_id),
                              cause, ms)
    IN IF cause = "completed"
       THEN start_user_silence_timer(
                start_processing_timer([o3 EXCEPT !.last_agent_prompt_ts = At(o.now)], NoTask),
                NoTask)
       ELSE o3

\* _on_agent_state_changed (440-449); _agent_state is written and never read.
on_agent_state_changed(o, state) ==
    IF state = "thinking" THEN emit_turn_started(new_turn(o)) ELSE o

\* _on_user_state_changed (451-458); _user_state is written and never read.
on_user_state_changed(o, state) ==
    IF state = "speaking" THEN record_user_activity(o) ELSE o

\* _on_user_input_transcribed (460-506).
on_user_input_transcribed(o, text) ==
    LET o1 == [record_user_activity(o) EXCEPT !.current_transcript = text]
        had_turn == o1.current_turn_id # NoTurn
        o2 == emit_stt_final(o1)
    IN IF ~had_turn THEN emit_turn_started(o2) ELSE o2

\* _on_close (508-511).
on_close(o) ==
    [cancel_duration_timers(cancel_user_silence_timer(cancel_processing_timer(o)))
        EXCEPT !.closed = TRUE]

\* _on_vad_state_changed (288-295).
on_vad_state_changed(o, state) ==
    emitter_emit(o, NoTask, "vad.state_changed", SessionCorr, state)

\* The task t moves to the await pc, or is over.
at(o, t, pc) == [o EXCEPT !.tasks[t].pc = pc]

\* _close_due_to_user_silence (663-685) from its say on: emits call.ended
\* and calls request_hangup.
close_after_say(o, t) ==
    LET o1 == emitter_emit(o, t, "call.ended", o.tasks[t].started_turn, "user_silence_timeout")
    IN at(call_out(o1, t, "request_hangup", None), t, "hangup")

\* _close_due_to_user_silence (663-672) up to its say.
close_due_to_user_silence(o, t) ==
    IF o.session # None
    THEN at(call_out(o, t, "say", ClosingPhrase), t, "say_closing")
    ELSE close_after_say(o, t)

\* Mutant of the end of a close sequence: closes the session whatever
\* request_hangup returned.
after_hangup_always_aclose(o, t, cp_ok) ==
    LET o1 == [o EXCEPT !.tasks[t].cp_ok = IF cp_ok THEN "True" ELSE "False"]
    IN at(call_out(o1, t, "aclose", None), t, "aclose")

\* The end of a close sequence (680-685, 796-803): request_hangup returned
\* cp_ok.
after_hangup(o, t, cp_ok) ==
    LET o1 == [o EXCEPT !.tasks[t].cp_ok = IF cp_ok THEN "True" ELSE "False"]
    IN IF ~cp_ok /\ o1.session # None
       THEN at(call_out(o1, t, "aclose", None), t, "aclose")
       ELSE at(o1, t, "done")

\* The user-silence _timer after its reprompt (628-631).
sleep_remaining(o, t) ==
    LET remaining_ms == o.silence.user_silence_close_ms - o.silence.user_silence_reprompt_ms
    IN IF remaining_ms <= 0
       THEN at(o, t, "done")
       ELSE at(sleep(o, t, remaining_ms), t, "sleep_remaining")

\* The user-silence _timer (597-634) from the await it is suspended at to
\* its next await.  `ok` says whether the awaited say, request_hangup or
\* aclose succeeded; an awaited sleep always does.
user_silence_timer_step(o, t, ok) ==
    LET pc == o.tasks[t].pc IN
    CASE pc = "sleep_close" ->
            IF is_user_silent_since_prompt(o)
            THEN close_due_to_user_silence(o, t)
            ELSE at(o, t, "done")
      [] pc = "sleep_reprompt" ->
            IF is_user_silent_since_prompt(o)
            THEN LET o1 == emitter_emit(o, t, "silence.timer_fired",
                                        o.tasks[t].started_turn, "user")
                 IN IF o1.session # None
                    THEN at(call_out(o1, t, "say", RepromptPhrase), t, "say_reprompt")
                    ELSE sleep_remaining(o1, t)
            ELSE sleep_remaining(o, t)
      [] pc = "say_reprompt" ->
            sleep_remaining(IF ok THEN [o EXCEPT !.last_agent_prompt_ts = At(o.now)] ELSE o, t)
      [] pc = "sleep_remaining" ->
            IF is_user_silent_since_prompt(o)
            THEN close_due_to_user_silence(o, t)
            ELSE at(o, t, "done")
      [] pc = "say_closing" -> close_after_say(o, t)
      [] pc = "hangup" -> after_hangup(o, t, ok)
      [] pc = "aclose" -> at(o, t, "done")

\* The processing _timer with the test of _delay_ack_sent_for_turn (531-532)
\* left out.
processing_timer_step_every_expiry(o, t, ok) ==
    LET pc == o.tasks[t].pc IN
    CASE pc = "sleep" ->
            IF o.tts_playing
            THEN at(o, t, "done")
            ELSE LET corr == or_session_id(o.current_turn_id)
                     o1 == [o EXCEPT !.delay_ack_sent_for_turn = TRUE]
                     o2 == emitter_emit(o1, t, "silence.timer_fired", corr, "processing")
                     o3 == emitter_emit(o2, t, "ux.delay_acknowledged", corr, "delay_ack.thinking")
                 IN IF o3.session # None
                    THEN at(call_out(o3, t, "say", DelayAckPhrase), t, "say")
                    ELSE at(o3, t, "done")
      [] pc = "say" ->
            LET o1 == IF ok THEN o
                      ELSE emitter_emit(o, t, "ux.prompt_failed",
                                        or_session_id(o.current_turn_id), "delay_ack.thinking")
            IN at(start_user_silence_timer(o1, t), t, "done")
      [] pc = "cancelled_in_say" ->
            at(start_user_silence_timer(o, t), t, "cancelled")

\* The processing _timer (525-570) from the await it is suspended at to its
\* end.  Cancelled in say, it runs its finally block.
processing_timer_step(o, t, ok) ==
    LET pc == o.tasks[t].pc IN
    CASE pc = "sleep" ->
            IF o.delay_ack_sent_for_turn \/ o.tts_playing
            THEN at(o, t, "done")
            ELSE LET corr == or_session_id(o.current_turn_id)
                     o1 == [o EXCEPT !.delay_ack_sent_for_turn = TRUE]
                     o2 == emitter_emit(o1, t, "silence.timer_fired", corr, "processing")
                     o3 == emitter_emit(o2, t, "ux.delay_acknowledged", corr, "delay_ack.thinking")
                 IN IF o3.session # None
                    THEN at(call_out(o3, t, "say", DelayAckPhrase), t, "say")
                    ELSE at(o3, t, "done")
      [] pc = "say" ->
            LET o1 == IF ok THEN o
                      ELSE emitter_emit(o, t, "ux.prompt_failed",
                                        or_session_id(o.current_turn_id), "delay_ack.thinking")
            IN at(start_user_silence_timer(o1, t), t, "done")
      [] pc = "cancelled_in_say" ->
            at(start_user_silence_timer(o, t), t, "cancelled")

\* _warning_task (720-731) with _handle_duration_warning (751-783).  The
\* argument of call.duration_warning is its remaining_seconds.
duration_warning_step(o, t, ok) ==
    LET pc == o.tasks[t].pc IN
    CASE pc = "sleep" ->
            IF o.session = None
            THEN at(o, t, "done")
            ELSE LET o1 == emitter_emit(o, t, "call.duration_warning", SessionCorr, "15")
                 IN at(call_out(o1, t, "say", WarningPhrase), t, "say")
      [] pc = "say" ->
            at(IF ok THEN o
               ELSE emitter_emit(o, t, "ux.prompt_failed", SessionCorr, "duration_warning"),
               t, "done")

\* _timeout_task (736-747) with _handle_duration_timeout (785-803).
duration_timeout_step(o, t, ok) ==
    LET pc == o.tasks[t].pc IN
    CASE pc = "sleep" ->
            LET o1 == emitter_emit(o, t, "call.ended", SessionCorr, "max_duration_reached")
            IN at(call_out(o1, t, "request_hangup", None), t, "hangup")
      [] pc = "hangup" -> after_hangup(o, t, ok)
      [] pc = "aclose" -> at(o, t, "done")

\* One step of the task t.
task_step(o, t, ok) ==
    CASE o.tasks[t].kind = "user_silence" -> user_silence_timer_step(o, t, ok)
      [] o.tasks[t].kind = "processing" -> processing_timer_step(o, t, ok)
      [] o.tasks[t].kind = "duration_warning" -> duration_warning_step(o, t, ok)
      [] o.tasks[t].kind = "duration_timeout" -> duration_timeout_step(o, t, ok)

----------------------------------------------------------------------------
\* The shared emitter and the event store (observability/events.py,
\* observability/event_store.py).

\* The event dict EventEmitter.emit builds (events.py:62-72): ts is the
\* clock reading (the ISO string of datetime.now, which store parses back to
\* the same instant), correlation_id falls back to the session id, and
\* payload holds the keyword arguments.
ObsEvent(ts, event_type, session_id, component, severity, correlation_id, payload) ==
    [ ts |-> ts,
      session_id |-> session_id,
      component |-> component,
      event_type |-> event_type,
      severity |-> severity,
      correlation_id |-> IF correlation_id = None THEN session_id ELSE correlation_id,
      payload |-> payload ]

\* StoredEvent (event_store.py:16-41) built from an event dict by store
\* (63-90), and to_dict, which gives the dict back.
StoredEvent(event) ==
    [ ts |-> event.ts,
      session_id |-> event.session_id,
      component |-> event.component,
      event_type |-> event.event_type,
      severity |-> event.severity,
      correlation_id |-> event.correlation_id,
      payload |-> event.payload ]

to_dict(e) ==
    ObsEvent(e.ts, e.event_type, e.session_id, e.component, e.severity,
             e.correlation_id, e.payload)

\* EventStore.__init__ (52-54): an empty deque(maxlen=max_events).
EventStore(max_events) == [_events |-> <<>>, _max_events |-> max_events]

\* deque.append that refuses the new item when the deque is full.
deque_append_keeps_oldest(d, maxlen, x) ==
    IF Len(d) >= maxlen THEN d ELSE Append(d, x)

\* deque.append on a deque with maxlen: a full deque drops its leftmost item.
deque_append(d, maxlen, x) ==
    IF maxlen = 0 THEN d
    ELSE IF Len(d) >= maxlen THEN Append(Tail(d), x)
    ELSE Append(d, x)

\* EventStore.store (56-92).
store(es, event) ==
    [es EXCEPT !._events = deque_append(@, es._max_events, StoredEvent(event))]

\* The filters of a query: None or a string for session_id, event_type and
\* component; Null or At(t) for since and until; Null or At(n) for limit.
Filters(session_id, event_type, component, since, until, limit) ==
    [ session_id |-> session_id, event_type |-> event_type, component |-> component,
      since |-> since, until |-> until, limit |-> limit ]

\* Python's truth value of a filter: None and "" are false, and so is 0; a
\* datetime is always true.
truthy(s) == s # None /\ s # ""
truthy_int(n) == n # Null /\ n[1] # 0

\* The loop of EventStore.query (119-135) from the k-th stored event on,
\* with the results collected so far.
RECURSIVE query_loop(_, _, _, _)
query_loop(evs, f, k, results) ==
    IF k > Len(evs) THEN results
    ELSE LET event == evs[k] IN
         IF truthy(f.session_id) /\ event.session_id # f.session_id
         THEN query_loop(evs, f, k + 1, results)
         ELSE IF truthy(f.event_type) /\ event.event_type # f.event_type
         THEN query_loop(evs, f, k + 1, results)
         ELSE IF truthy(f.component) /\ event.component # f.component
         THEN query_loop(evs, f, k + 1, results)
         ELSE IF f.since # Null /\ event.ts < f.since[1]
         THEN query_loop(evs, f, k + 1, results)
         ELSE IF f.until # Null /\ event.ts > f.until[1]
         THEN query_loop(evs, f, k + 1, results)
         ELSE LET r == Append(results, event) IN
              IF truthy_int(f.limit) /\ Len(r) >= f.limit[1]
              THEN r
              ELSE query_loop(evs, f, k + 1, r)

\* The loop of EventStore.query with `until` as an exclusive bound.
RECURSIVE query_loop_until_exclusive(_, _, _, _)
query_loop_until_exclusive(evs, f, k, results) ==
    IF k > Len(evs) THEN results
    ELSE LET event == evs[k] IN
         IF truthy(f.session_id) /\ event.session_id # f.session_id
         THEN query_loop_until_exclusive(evs, f, k + 1, results)
         ELSE IF truthy(f.event_type) /\ event.event_type # f.event_type
         THEN query_loop_until_exclusive(evs, f, k + 1, results)
         ELSE IF truthy(f.component) /\ event.component # f.component
         THEN query_loop_until_exclusive(evs, f, k + 1, results)
         ELSE IF f.since # Null /\ event.ts < f.since[1]
         THEN query_loop_until_exclusive(evs, f, k + 1, results)
         ELSE IF f.until # Null /\ event.ts >= f.until[1]
         THEN query_loop_until_exclusive(evs, f, k + 1, results)
         ELSE LET r == Append(results, event) IN
              IF truthy_int(f.limit) /\ Len(r) >= f.limit[1]
              THEN r
              ELSE query_loop_until_exclusive(evs, f, k + 1, r)

\* EventStore.query with `until` as an exclusive bound.
query_until_exclusive(es, f) ==
    LET results == query_loop_until_exclusive(es._events, f, 1, <<>>)
    IN [k \in 1..Len(results) |-> to_dict(results[k])]

\* EventStore.query (94-138).
query(es, f) ==
    LET results == query_loop(es._events, f, 1, <<>>)
    IN [k \in 1..Len(results) |-> to_dict(results[k])]

\* No query made yet.
NoQuery == [filters |-> Filters(None, None, None, Null, Null, Null), result |-> <<>>]

\* EventEmitter.emit of observability/events.py (53-113) in the control-plane
\* process: the event goes to stdout and into the event store.
EventEmitter_emit(w, event) ==
    [w EXCEPT !.events = Append(@, event), !.event_store = store(@, event)]

----------------------------------------------------------------------------
\* The write API of the control plane (control_plane/control_api.py) and the
\* provider error handler (control_plane/errors.py).

\* The session_id create_session gives a session (session.py:92, a uuid
\* string), as a caller of the API writes it.
SessionId(n) == "sess_" \o ToString(n)

\* _new_correlation_id (control_api.py:43-44): cmd_<now in ms>.
new_correlation_id(now) == "cmd_" \o ToString(now)

\* The keyword arguments of a control.* event.
Payload(command, result, error_class) ==
    [ command |-> command, result |-> result, error_class |-> error_class ]

NoPayload == Payload(None, None, None)

\* What a hangup request did: an event emitted, the provider's delete-room
\* call issued, or the response sent.  The request record keeps them in
\* order (out), with how delete_room ended (delete_room), the HTTP status and
\* the status or detail of the response body (body).
HangupStep(op, name, correlation_id, result, error_class) ==
    [ op |-> op, name |-> name, correlation_id |-> correlation_id, result |-> result,
      error_class |-> error_class ]

\* How the provider's delete_room call can end: it returns, or it raises.
DeleteRoomOutcomes == {"ok", "TwirpError", "TimeoutError"}

\* The endpoint marks the session it is asked to hang up as ending.
hangup_call_received_marks_ending(w, session_id, now) ==
    LET correlation_id == new_correlation_id(now)
        w1 == EventEmitter_emit(w, ObsEvent(now, "control.command_received", session_id,
                                            "control_plane", "info", correlation_id,
                                            Payload("call.hangup", None, None)))
        named == {n \in 1..Len(w.sessions) :
                    SessionId(n) = session_id \/ w.sessions[n].livekit_room = session_id}
    IN [ w |-> [w1 EXCEPT !.sessions =
                    [n \in 1..Len(w.sessions) |->
                        IF n \in named /\ ~is_terminal(w.sessions[n])
                        THEN transition_to(w.sessions[n], ENDING)
                        ELSE w.sessions[n]]],
         h |-> [ session_id |-> session_id,
                 correlation_id |-> correlation_id,
                 pc |-> "delete_room",
                 delete_room |-> None,
                 status |-> 0,
                 body |-> None,
                 out |-> << HangupStep("emit", "control.command_received", correlation_id,
                                       None, None),
                            HangupStep("delete_room", session_id, None, None, None) >> ] ]

\* hangup_call up to its await (control_api.py:63-80), on the world of the
\* control-plane process (session registry, stdout, event store): the
\* command id is allocated, control.command_received is emitted and
\* _delete_room is called with the request's session_id as the room name.
hangup_call_received(w, session_id, now) ==
    LET correlation_id == new_correlation_id(now)
        w1 == EventEmitter_emit(w, ObsEvent(now, "control.command_received", session_id,
                                            "control_plane", "info", correlation_id,
                                            Payload("call.hangup", None, None)))
    IN [ w |-> w1,
         h |-> [ session_id |-> session_id,
                 correlation_id |-> correlation_id,
                 pc |-> "delete_room",
                 delete_room |-> None,
                 status |-> 0,
                 body |-> None,
                 out |-> << HangupStep("emit", "control.command_received", correlation_id,
                                       None, None),
                            HangupStep("delete_room", session_id, None, None, None) >> ] ]

\* The response is 200 whatever delete_room did.
hangup_call_applied_always_ok(w, h, outcome, now) ==
    LET result == IF outcome = "ok" THEN "ok" ELSE "error"
        error_class == IF outcome = "ok" THEN None ELSE outcome
        w1 == EventEmitter_emit(w, ObsEvent(now, "control.command_applied", h.session_id,
                                            "control_plane", "info", h.correlation_id,
                                            Payload("call.hangup", result, error_class)))
    IN [ w |-> w1,
         h |-> [h EXCEPT !.pc = "done", !.delete_room = outcome,
                              !.status = 200, !.body = "ok",
                         !.out = @ \o << HangupStep("emit", "control.command_applied",
                                                    h.correlation_id, result, error_class),
                                         HangupStep("respond", "ok", None, None, None) >>] ]

\* hangup_call after its await (control_api.py:80-104): delete_room raised
\* (control.command_applied with result error and the exception's class
\* name, then HTTPException 502 hangup_failed) or returned
\* (control.command_applied with result ok, then 200 {status: ok}).
hangup_call_applied(w, h, outcome, now) ==
    IF outcome # "ok"
    THEN LET w1 == EventEmitter_emit(w, ObsEvent(now, "control.command_applied",
                                                 h.session_id, "control_plane", "error",
                                                 h.correlation_id,
                                                 Payload("call.hangup", "error", outcome)))
         IN [ w |-> w1,
              h |-> [h EXCEPT !.pc = "done", !.delete_room = outcome,
                              !.status = 502, !.body = "hangup_failed",
                              !.out = @ \o << HangupStep("emit", "control.command_applied",
                                                         h.correlation_id, "error", outcome),
                                              HangupStep("respond", "hangup_failed", None,
                                                         None, None) >>] ]
    ELSE LET w1 == EventEmitter_emit(w, ObsEvent(now, "control.command_applied",
                                                 h.session_id, "control_plane", "info",
                                                 h.correlation_id,
                                                 Payload("call.hangup", "ok", None)))
         IN [ w |-> w1,
              h |-> [h EXCEPT !.pc = "done", !.delete_room = outcome,
                              !.status = 200, !.body = "ok",
                              !.out = @ \o << HangupStep("emit", "control.command_applied",
                                                         h.correlation_id, "ok", None),
                                              HangupStep("respond", "ok", None, None,
                                                         None) >>] ]

\* How a write to sys.stdout can end: it returns, or it raises (the pipe is
\* closed, the text cannot be encoded for the stream).
SinkOutcomes == {"ok", "BrokenPipeError", "UnicodeEncodeError"}

\* EventEmitter.emit (observability/events.py:53-113) when the write can
\* fail: sys.stdout.write (109) is not inside a try, so what it raises leaves
\* emit before event_store.store (113) is reached.  raised is the exception
\* class, None when emit returned.
EventEmitter_emit_sink(w, event, sink) ==
    IF sink = "ok"
    THEN [ w |-> EventEmitter_emit(w, event), raised |-> None ]
    ELSE [ w |-> w, raised |-> sink ]

\* The response to a request whose handler raised something that is not an
\* HTTPException: 500 Internal Server Error.
Unhandled(h, raised) ==
    [h EXCEPT !.pc = "done", !.status = 500, !.body = "Internal Server Error",
              !.out = @ \o << HangupStep("raise", raised, h.correlation_id, None, None) >>]

\* hangup_call up to its await (control_api.py:63-80) when the write can
\* fail: the first emit (72-78) is outside the try of line 80, so what it
\* raises ends the request before _delete_room is called.
hangup_call_received_sink(w, session_id, now, sink) ==
    LET correlation_id == new_correlation_id(now)
        e == EventEmitter_emit_sink(w, ObsEvent(now, "control.command_received", session_id,
                                                "control_plane", "info", correlation_id,
                                                Payload("call.hangup", None, None)), sink)
    IN IF e.raised = None
       THEN hangup_call_received(w, session_id, now)
       ELSE [ w |-> e.w,
              h |-> Unhandled([ session_id |-> session_id,
                                correlation_id |-> correlation_id,
                                pc |-> "received",
                                delete_room |-> None,
                                status |-> 0,
                                body |-> None,
                                out |-> <<>> ], e.raised) ]

\* hangup_call after its await (control_api.py:80-104) when the write can
\* fail: the emit of the except branch (84-92) raises before the
\* HTTPException of line 93 is, the emit after the try (95-102) before the
\* response is returned.
hangup_call_applied_sink(w, h, outcome, now, sink) ==
    LET e == EventEmitter_emit_sink(w, ObsEvent(now, "control.command_applied",
                                                h.session_id, "control_plane",
                                                IF outcome = "ok" THEN "info" ELSE "error",
                                                h.correlation_id,
                                                Payload("call.hangup",
                                                        IF outcome = "ok" THEN "ok" ELSE "error",
                                                        IF outcome = "ok" THEN None ELSE outcome)),
                                    sink)
    IN IF e.raised = None
       THEN hangup_call_applied(w, h, outcome, now)
       ELSE [ w |-> e.w,
              h |-> Unhandled([h EXCEPT !.delete_room = outcome], e.raised) ]

\* ProviderErrorCategory (errors.py:9-28).
AUTH_FAILED == "provider.auth_failed"
MISCONFIGURED == "provider.misconfigured"
NETWORK_ERROR == "provider.network_error"
BUSY == "call.busy"
NO_ANSWER == "call.no_answer"
REJECTED == "call.rejected"
FAILED == "call.failed"
RATE_LIMITED == "provider.rate_limited"
CAPACITY_LIMITED == "provider.capacity_limited"
UNKNOWN_ERROR == "provider.unknown_error"

\* An exception: its class and its single argument, which is a string (a
\* sequence of characters), an integer, None, or absent (Exception()).
StrArg(value) == [kind |-> "str", value |-> value]
IntArg(value) == [kind |-> "int", value |-> value]
NoneArg == [kind |-> "None", value |-> <<>>]
NoArg == [kind |-> "absent", value |-> <<>>]

ProviderError(type, arg) == [ type |-> type, arg |-> arg ]

Digit(d) ==
    CASE d = 0 -> "0" [] d = 1 -> "1" [] d = 2 -> "2" [] d = 3 -> "3" [] d = 4 -> "4"
      [] d = 5 -> "5" [] d = 6 -> "6" [] d = 7 -> "7" [] d = 8 -> "8" [] d = 9 -> "9"

\* str(n) of a natural number.
RECURSIVE str_int(_)
str_int(n) == IF n < 10 THEN <<Digit(n)>> ELSE Append(str_int(n \div 10), Digit(n % 10))

\* str(error) (BaseException.__str__): the empty string without argument,
\* str(arg) with one; KeyError.__str__ gives repr(arg), which quotes a string.
str_arg(arg) ==
    CASE arg.kind = "str" -> arg.value
      [] arg.kind = "int" -> str_int(arg.value)
      [] arg.kind = "None" -> <<"N", "o", "n", "e">>
      [] OTHER -> <<>>

str(error) ==
    IF error.type = "KeyError" /\ error.arg.kind = "str"
    THEN <<"'">> \o error.arg.value \o <<"'">>
    ELSE str_arg(error.arg)

\* "<pattern>" in error_str
has(error_str, pattern) == contains(error_str, pattern)

\* The cascade ends without a default, so an unmatched message gives None.
classify_error_no_default(error) ==
    LET error_str == lower(str(error))
    IN IF has(error_str, <<"a", "u", "t", "h">>) \/ has(error_str, <<"4", "0", "1">>)
       THEN AUTH_FAILED
       ELSE IF has(error_str, <<"c", "o", "n", "f", "i", "g">>)
       THEN MISCONFIGURED
       ELSE None

\* ProviderErrorHandler.classify_error (errors.py:35-72): the first rule
\* that matches str(error).lower() decides.
classify_error(error) ==
    LET error_str == lower(str(error))
    IN IF has(error_str, <<"a", "u", "t", "h">>)
          \/ has(error_str, <<"u", "n", "a", "u", "t", "h", "o", "r", "i", "z", "e", "d">>)
          \/ has(error_str, <<"4", "0", "1">>)
       THEN AUTH_FAILED
       ELSE IF has(error_str, <<"c", "o", "n", "f", "i", "g">>)
          \/ has(error_str, <<"m", "i", "s", "c", "o", "n", "f", "i", "g", "u", "r", "e", "d">>)
       THEN MISCONFIGURED
       ELSE IF has(error_str, <<"n", "e", "t", "w", "o", "r", "k">>)
          \/ has(error_str, <<"t", "i", "m", "e", "o", "u", "t">>)
          \/ has(error_str, <<"c", "o", "n", "n", "e", "c", "t", "i", "o", "n">>)
       THEN NETWORK_ERROR
       ELSE IF has(error_str, <<"b", "u", "s", "y">>)
          \/ has(error_str, <<"4", "8", "6">>)
       THEN BUSY
       ELSE IF has(error_str, <<"n", "o", " ", "a", "n", "s", "w", "e", "r">>)
          \/ has(error_str, <<"n", "o", "a", "n", "s", "w", "e", "r">>)
          \/ has(error_str, <<"4", "8", "0">>)
       THEN NO_ANSWER
       ELSE IF has(error_str, <<"r", "e", "j", "e", "c", "t", "e", "d">>)
          \/ has(error_str, <<"r", "e", "j", "e", "c", "t">>)
          \/ has(error_str, <<"6", "0", "3">>)
       THEN REJECTED
       ELSE IF has(error_str, <<"r", "a", "t", "e", " ", "l", "i", "m", "i", "t">>)
          \/ has(error_str, <<"4", "2", "9">>)
          \/ has(error_str, <<"t", "h", "r", "o", "t", "t", "l", "e">>)
       THEN RATE_LIMITED
       ELSE IF has(error_str, <<"c", "a", "p", "a", "c", "i", "t", "y">>)
          \/ has(error_str, <<"5", "0", "3">>)
       THEN CAPACITY_LIMITED
       ELSE UNKNOWN_ERROR

\* EventEmitter.provider_event (control_plane/events.py:193-223): severity
\* warn for the categories whose name contains "error" or "limited".
provider_event(events, session_id, category, direction, detail) ==
    emit(events, [Event("provider.event", session_id) EXCEPT
                    !.severity = IF category \in {NETWORK_ERROR, UNKNOWN_ERROR,
                                                  RATE_LIMITED, CAPACITY_LIMITED}
                                 THEN "warn" ELSE "info",
                    !.category = category,
                    !.direction = direction,
                    !.detail = detail])

\* "[redacted: potential secret]" (errors.py:94)
REDACTED ==
    <<"[", "r", "e", "d", "a", "c", "t", "e", "d", ":", " ", "p", "o", "t", "e", "n",
      "t", "i", "a", "l", " ", "s", "e", "c", "r", "e", "t", "]">>

\* Only the literal token secret is looked for, in the message as written.
handle_error_redacts_secret_only(events, session_id, error, direction) ==
    LET category == classify_error(error)
        detail == IF has(str(error), <<"s", "e", "c", "r", "e", "t">>) THEN REDACTED ELSE str(error)
    IN [ events |-> provider_event(events, session_id, category, direction, detail),
         category |-> category ]

\* ProviderErrorHandler.handle_error (errors.py:75-107): classifies, redacts
\* the detail, emits one provider.event and returns the category.  The
\* session registry is not read or written.
handle_error(events, session_id, error, direction) ==
    LET category == classify_error(error)
        detail == IF \/ has(lower(str(error)), <<"s", "e", "c", "r", "e", "t">>)
                     \/ has(lower(str(error)), <<"p", "a", "s", "s", "w", "o", "r", "d">>)
                     \/ has(lower(str(error)), <<"k", "e", "y">>)
                  THEN REDACTED
                  ELSE str(error)
    IN [ events |-> provider_event(events, session_id, category, direction, detail),
         category |-> category ]

----------------------------------------------------------------------------
\* State.

VARIABLES
    sessions,    \* SessionManager._sessions, in insertion order
    events,      \* the events the process wrote to stdout, in order
    clock,       \* datetime.now(timezone.utc)
    nreq,        \* number of POST /webhook requests handled
    lastReq,     \* the last request: its Authorization, event kind, room
                 \* name and participant sid
    lastResp,    \* the HTTP status the last request was answered with
    calls,       \* number of direct registry API calls made
    callResult,  \* how the last direct registry API call ended
    observer,    \* the VoicePipelineObserver of one call, with its tasks
    nsig,        \* number of signals the agent session can still deliver
    greeted,     \* the entrypoint is past its greeting
    event_store, \* observability.event_store.event_store of the control-plane
                 \* process
    lastQuery,   \* the last EventStore.query call: its filters and its result
    hangups,     \* the POST /control/call/hangup requests received so far
    lastError    \* the error last given to the provider error handler

vars == <<sessions, events, clock, nreq, lastReq, lastResp, calls, callResult,
          observer, nsig, greeted, event_store, lastQuery, hangups, lastError>>

\* No error handled yet.
NoError == ProviderError("Exception", NoArg)

Init ==
    /\ sessions = <<>>
    /\ events = <<>>
    /\ clock = 1
    /\ nreq = 0
    /\ lastReq = Summary(Request(None, InvalidBody))
    /\ lastResp = 0
    /\ calls = 0
    /\ callResult = None
    /\ observer = VoicePipelineObserver(DefaultConfig)
    /\ nsig = 0
    /\ greeted = FALSE
    /\ event_store = EventStore(MaxEvents)
    /\ lastQuery = NoQuery
    /\ hangups = <<>>
    /\ lastError = NoError

World == [sessions |-> sessions, events |-> events]

\* One POST /webhook request, handled to completion.
Deliver(req) ==
    /\ nreq' = nreq + 1
    /\ lastReq' = Summary(req)
    /\ clock' = clock + 1
    /\ LET r == post_webhook(World, req, clock) IN
        /\ sessions' = r.w.sessions
        /\ events' = r.w.events
        /\ lastResp' = r.status
    /\ UNCHANGED <<calls, callResult, observer, nsig, greeted, event_store, lastQuery, hangups, lastError>>

WebhookRoomStarted ==
    /\ nreq < MaxWebhooks
    /\ \E a \in Auths, b \in RoomStartedBodies : Deliver(Request(a, b))

WebhookParticipantJoined ==
    /\ nreq < MaxWebhooks
    /\ \E a \in Auths, b \in ParticipantJoinedBodies : Deliver(Request(a, b))

WebhookParticipantLeft ==
    /\ nreq < MaxWebhooks
    /\ \E a \in Auths, b \in ParticipantLeftBodies : Deliver(Request(a, b))

WebhookTrackPublished ==
    /\ nreq < MaxWebhooks
    /\ \E a \in Auths, b \in TrackPublishedBodies : Deliver(Request(a, b))

WebhookRoomFinished ==
    /\ nreq < MaxWebhooks
    /\ \E a \in Auths, b \in RoomFinishedBodies : Deliver(Request(a, b))

WebhookOther ==
    /\ nreq < MaxWebhooks
    /\ \E a \in Auths, b \in OtherBodies : Deliver(Request(a, b))

\* A request without Authorization header.
WebhookNoAuth ==
    /\ nreq < MaxWebhooks
    /\ \E b \in RoomStartedBodies \cup RoomFinishedBodies : Deliver(Request(None, b))

Next ==
    \/ WebhookRoomStarted
    \/ WebhookParticipantJoined
    \/ WebhookParticipantLeft
    \/ WebhookTrackPublished
    \/ WebhookRoomFinished
    \/ WebhookOther
    \/ WebhookNoAuth

\* The webhook service: the provider's webhooks in any order, with duplicates.
Spec == Init /\ [][Next]_vars

----------------------------------------------------------------------------
\* Direct use of the registry API (what the tests, and an outbound
\* dispatcher, do): SessionManager.create_session, Session.transition_to and
\* Session.end on any session of the registry.  None of the three has a
\* raise statement: each call returns.

CallCreateSession(direction) ==
    /\ calls + nreq < MaxCalls
    /\ sessions' = create_session(sessions, direction, None, None, clock)
    /\ callResult' = "returned"
    /\ calls' = calls + 1
    /\ clock' = clock + 1
    /\ UNCHANGED <<events, nreq, lastReq, lastResp, observer, nsig, greeted,
                   event_store, lastQuery, hangups, lastError>>

CallTransitionTo(sid, new_state) ==
    /\ calls + nreq < MaxCalls
    /\ sid \in 1..Len(sessions)
    /\ sessions' = [sessions EXCEPT ![sid] = transition_to(@, new_state)]
    /\ callResult' = "returned"
    /\ calls' = calls + 1
    /\ clock' = clock + 1
    /\ UNCHANGED <<events, nreq, lastReq, lastResp, observer, nsig, greeted,
                   event_store, lastQuery, hangups, lastError>>

CallEnd(sid, reason) ==
    /\ calls + nreq < MaxCalls
    /\ sid \in 1..Len(sessions)
    /\ sessions' = [sessions EXCEPT ![sid] = end(@, reason, clock)]
    /\ callResult' = "returned"
    /\ calls' = calls + 1
    /\ clock' = clock + 1
    /\ UNCHANGED <<events, nreq, lastReq, lastResp, observer, nsig, greeted,
                   event_store, lastQuery, hangups, lastError>>

\* A webhook between the direct calls.
RegistryWebhook ==
    /\ calls + nreq < MaxCalls
    /\ \E a \in Auths,
          b \in RoomStartedBodies \cup ParticipantJoinedBodies \cup ParticipantLeftBodies
                \cup TrackPublishedBodies \cup RoomFinishedBodies \cup OtherBodies :
            Deliver(Request(a, b))

NextRegistry ==
    \/ RegistryWebhook
    \/ \E d \in {"inbound", "outbound"} : CallCreateSession(d)
    \/ \E sid \in 1..MaxSessions, new_state \in SessionState : CallTransitionTo(sid, new_state)
    \/ \E sid \in 1..MaxSessions, reason \in EndReasons : CallEnd(sid, reason)

SpecRegistry == Init /\ [][NextRegistry]_vars

----------------------------------------------------------------------------
\* One call under its Observer: the signals of the agent session in any
\* order, the entrypoint arming the timers after its greeting, and the timer
\* tasks running from await to await.

\* The clock is read in milliseconds.  Time is measured by what happens to
\* the call: between two signals at least a millisecond passes, except that
\* a signal that can start a turn may arrive in the same millisecond as the
\* signal before it; a timer step reads the clock as the last signal left
\* it, which keeps every comparison of two readings as the real clock gives
\* it.
Elapsed == {0, 1}
tick(o, dt) == [o EXCEPT !.now = @ + dt]

\* The Observer handles something; the control plane is not involved.
ObserverDoes(o) ==
    /\ observer' = o
    /\ UNCHANGED <<sessions, events, clock, nreq, lastReq, lastResp, calls, callResult,
                   event_store, lastQuery, hangups, lastError>>

\* A signal of the session reaches its handler.
Signal(name, o) ==
    /\ nsig' = nsig - 1
    /\ ObserverDoes([o EXCEPT !.last_signal = name])
    /\ UNCHANGED greeted

\* A closed session emits no further signal.
CanSignal == nsig > 0 /\ ~observer.closed

AgentStateChanged ==
    /\ CanSignal
    /\ \E dt \in Elapsed, state \in {"thinking", "listening"} :
        Signal(IF state = "thinking" THEN "agent_thinking" ELSE "agent_state_changed",
               on_agent_state_changed(tick(observer, dt), state))

UserStateChanged ==
    /\ CanSignal
    /\ \E state \in {"speaking", "listening"} :
        Signal(IF state = "speaking" THEN "user_speaking" ELSE "user_state_changed",
               on_user_state_changed(tick(observer, 1), state))

UserInputTranscribed ==
    /\ CanSignal
    /\ \E dt \in Elapsed :
        Signal("user_input_transcribed", on_user_input_transcribed(tick(observer, dt), "hoi"))

VadStateChanged ==
    /\ CanSignal
    /\ Signal("vad_state_changed", on_vad_state_changed(tick(observer, 1), "speaking"))

UserStartedSpeaking ==
    /\ CanSignal
    /\ Signal("user_started_speaking", on_user_started_speaking(tick(observer, 1)))

UserStoppedSpeaking ==
    /\ CanSignal
    /\ Signal("user_stopped_speaking", on_user_stopped_speaking(tick(observer, 1)))

UserSpeechCommitted ==
    /\ CanSignal
    /\ \E dt \in Elapsed :
        Signal("user_speech_committed", on_user_speech_committed(tick(observer, dt), "hoi"))

AgentStartedSpeaking ==
    /\ CanSignal
    /\ \E text \in {None, "dag"} :
        Signal("agent_started_speaking", on_agent_started_speaking(tick(observer, 1), text))

AgentStoppedSpeaking ==
    /\ CanSignal
    /\ \E cause \in {"completed", "barge_in", "error"} :
        Signal("agent_stopped_speaking", on_agent_stopped_speaking(tick(observer, 1), cause))

\* The TTS hands the response text over (google_cloud_tts.py).
SetLlmResponseText ==
    /\ CanSignal
    /\ Signal("set_llm_response_text", set_llm_response_text(tick(observer, 1), "dag"))

Close ==
    /\ CanSignal
    /\ Signal("close", on_close(tick(observer, 1)))

\* The entrypoint after its greeting attempt (agent.py:254-275): the finally
\* block arms both timers, whether or not the greeting was played.
EntrypointArms ==
    /\ ~greeted
    /\ greeted' = TRUE
    /\ ObserverDoes(arm_call_duration_timer(arm_user_silence_timer(tick(observer, 1))))
    /\ UNCHANGED nsig

\* The tasks of a kind that the loop can run: suspended, or cancelled with a
\* finally block to run.
Runnable(kind) ==
    {t \in 1..Len(observer.tasks) :
        observer.tasks[t].kind = kind /\ observer.tasks[t].pc \notin Over}

\* The awaits whose outcome can be a failure.
Fallible == {"say", "say_reprompt", "say_closing", "hangup", "aclose"}
Outcomes(t) == IF observer.tasks[t].pc \in Fallible THEN BOOLEAN ELSE {TRUE}

\* The loop resumes the task t: its sleep is over, or the call it awaits
\* returned or raised.
TaskRuns(t) ==
    /\ \E ok \in Outcomes(t) : ObserverDoes(task_step(observer, t, ok))
    /\ UNCHANGED <<nsig, greeted>>

UserSilenceTimerRuns == \E t \in Runnable("user_silence") : TaskRuns(t)

ProcessingTimerRuns == \E t \in Runnable("processing") : TaskRuns(t)

DurationWarningRuns == \E t \in Runnable("duration_warning") : TaskRuns(t)

\* The timeout task sleeps 20 seconds longer than the warning task armed with
\* it, so it wakes after the warning task did.
DurationTimeoutRuns ==
    \E t \in Runnable("duration_timeout") :
        /\ observer.tasks[t].pc = "sleep"
            => \A w \in Runnable("duration_warning") : observer.tasks[w].pc # "sleep"
        /\ TaskRuns(t)

\* The control plane at rest.
ControlPlaneIdle ==
    /\ sessions = <<>>
    /\ events = <<>>
    /\ clock = 1
    /\ nreq = 0
    /\ lastReq = Summary(Request(None, InvalidBody))
    /\ lastResp = 0
    /\ calls = 0
    /\ callResult = None
    /\ event_store = EventStore(MaxEvents)
    /\ lastQuery = NoQuery
    /\ hangups = <<>>
    /\ lastError = NoError

\* The turns of a call: the signals whose handlers read or write the turn
\* fields (current_turn_id, _stt_final_emitted_for_turn, _llm_request_ts,
\* _current_transcript, _current_llm_response) or emit stt.final,
\* turn.started, llm.request, llm.response, tts.started or tts.stopped.  The
\* timers armed on the way stay asleep.
InitTurns ==
    /\ ControlPlaneIdle
    /\ observer = VoicePipelineObserver(DefaultConfig)
    /\ nsig = MaxTurnSignals
    /\ greeted = FALSE

NextTurns ==
    \/ AgentStateChanged
    \/ UserInputTranscribed
    \/ UserSpeechCommitted
    \/ AgentStartedSpeaking
    \/ AgentStoppedSpeaking
    \/ SetLlmResponseText
    \/ VadStateChanged

SpecTurns == InitTurns /\ [][NextTurns]_vars

\* The silence timers of a call, under each policy: the signals whose
\* handlers arm or cancel a timer, the entrypoint, and the two timer tasks.
InitSilence ==
    /\ ControlPlaneIdle
    /\ observer \in {VoicePipelineObserver(cfg) : cfg \in SilencePolicies}
    /\ nsig = MaxSilenceSignals
    /\ greeted = FALSE

NextSilence ==
    \/ UserStateChanged
    \/ UserInputTranscribed
    \/ UserStartedSpeaking
    \/ UserStoppedSpeaking
    \/ AgentStartedSpeaking
    \/ AgentStoppedSpeaking
    \/ Close
    \/ EntrypointArms
    \/ UserSilenceTimerRuns
    \/ ProcessingTimerRuns

SpecSilence == InitSilence /\ [][NextSilence]_vars

\* The processing timer over several turns: the signals that start a turn,
\* the agent's speech that arms and cancels the timer, and the processing
\* timer task.  The user-silence timers that get armed stay in their first
\* sleep (REPROMPT_MS and CLOSE_MS are several times PROC_MS); what they do
\* when it ends is in SpecSilence.
InitProcessing ==
    /\ ControlPlaneIdle
    /\ observer = VoicePipelineObserver(DefaultConfig)
    /\ nsig = MaxProcessingSignals
    /\ greeted = FALSE

NextProcessing ==
    \/ AgentStateChanged
    \/ AgentStartedSpeaking
    \/ AgentStoppedSpeaking
    \/ ProcessingTimerRuns

SpecProcessing == InitProcessing /\ [][NextProcessing]_vars

\* The maximum-duration guard of a call: the entrypoint's arming, the two
\* duration tasks, close, and the speech signals of a conversation.  The
\* user-silence and processing timers that get armed stay in their sleep;
\* what they do is in SpecSilence and SpecProcessing.
InitGuard ==
    /\ ControlPlaneIdle
    /\ observer \in {VoicePipelineObserver(cfg) : cfg \in GuardPolicies}
    /\ nsig = MaxGuardSignals
    /\ greeted = FALSE

NextGuard ==
    \/ EntrypointArms
    \/ UserStartedSpeaking
    \/ AgentStartedSpeaking
    \/ AgentStoppedSpeaking
    \/ Close
    \/ DurationWarningRuns
    \/ DurationTimeoutRuns

SpecGuard == InitGuard /\ [][NextGuard]_vars

\* Barge-in: the speech signals of the agent and of the user, and the signal
\* that starts a turn.  The timers that get armed stay in their sleep.
InitBargeIn ==
    /\ ControlPlaneIdle
    /\ observer = VoicePipelineObserver(DefaultConfig)
    /\ nsig = MaxBargeInSignals
    /\ greeted = FALSE

NextBargeIn ==
    \/ AgentStateChanged
    \/ AgentStartedSpeaking
    \/ AgentStoppedSpeaking
    \/ UserStartedSpeaking
    \/ UserStoppedSpeaking

SpecBargeIn == InitBargeIn /\ [][NextBargeIn]_vars

\* The ways a call is ended by its Observer: the user-silence close sequence
\* and the maximum-duration timeout, armed together by the entrypoint, with
\* the signals that cancel or restart the user-silence timer.  The guard is
\* set below the warning's lead, so there is no warning task.
EndingPolicies == {Config(7000, 14000, 10), Config(7000, 1000, 20)}

InitEnding ==
    /\ ControlPlaneIdle
    /\ observer \in {VoicePipelineObserver(cfg) : cfg \in EndingPolicies}
    /\ nsig = MaxEndingSignals
    /\ greeted = FALSE

NextEnding ==
    \/ EntrypointArms
    \/ UserStartedSpeaking
    \/ AgentStartedSpeaking
    \/ AgentStoppedSpeaking
    \/ Close
    \/ UserSilenceTimerRuns
    \/ DurationTimeoutRuns

SpecEnding == InitEnding /\ [][NextEnding]_vars

\* The event store under the emitter that feeds it and the queries of the
\* read API.  An emitted event is one of a few kinds (session, event type,
\* component); two events can carry the same timestamp.
ObsEventKinds ==
    { <<"sess_A", "call.started", "control_plane">>,
      <<"sess_A", "call.ended", "voice_pipeline">>,
      <<"sess_B", "call.started", "control_plane">> }

\* The filters a caller may pass: absent, empty, or a value.
QueryFilters ==
    { Filters(s, t, c, since, until, limit) :
        s \in {None, "", "sess_A"},
        t \in {None, "", "call.started"},
        c \in {None, "control_plane"},
        since \in {Null, At(2)},
        until \in {Null, At(2)},
        limit \in {Null} \cup {At(n) : n \in 0..MaxEvents} }

InitStore ==
    /\ sessions = <<>>
    /\ events = <<>>
    /\ clock = 1
    /\ nreq = 0
    /\ lastReq = Summary(Request(None, InvalidBody))
    /\ lastResp = 0
    /\ calls = 0
    /\ callResult = None
    /\ observer = VoicePipelineObserver(DefaultConfig)
    /\ nsig = 0
    /\ greeted = FALSE
    /\ \E max_events \in 0..MaxEvents : event_store = EventStore(max_events)
    /\ lastQuery = NoQuery
    /\ hangups = <<>>
    /\ lastError = NoError

\* EventEmitter.emit: one event of a session is emitted and stored.
EmitStored ==
    /\ Len(events) < MaxStores
    /\ \E kind \in ObsEventKinds, dt \in Elapsed :
        LET ev == ObsEvent(clock + dt, kind[2], kind[1], kind[3], "info", None, NoPayload)
            w == EventEmitter_emit([events |-> events, event_store |-> event_store], ev)
        IN /\ clock' = clock + dt
           /\ events' = w.events
           /\ event_store' = w.event_store
    /\ lastQuery' = NoQuery
    /\ UNCHANGED <<sessions, nreq, lastReq, lastResp, calls, callResult, observer, nsig,
                   greeted, hangups, lastError>>

\* EventStore.query is called on the store as the last emission left it (a
\* second query of the same store would read the same events).
QueryEvents ==
    /\ lastQuery = NoQuery
    /\ \E f \in QueryFilters : lastQuery' = [filters |-> f, result |-> query(event_store, f)]
    /\ UNCHANGED <<sessions, events, clock, nreq, lastReq, lastResp, calls, callResult,
                   observer, nsig, greeted, event_store, hangups, lastError>>

NextStore ==
    \/ EmitStored
    \/ QueryEvents

SpecStore == InitStore /\ [][NextStore]_vars

\* The error classifier on its own.  A message is one word or two words
\* with a space between them; the words hold the patterns of every rule,
\* in both letter cases, and words without any pattern.
Words ==
    { <<"U", "n", "a", "u", "t", "h", "o", "r", "i", "z", "e", "d">>,
      <<"4", "0", "1">>,
      <<"c", "o", "n", "f", "i", "g">>,
      <<"T", "i", "m", "e", "o", "u", "t">>,
      <<"c", "o", "n", "n", "e", "c", "t", "i", "o", "n">>,
      <<"b", "u", "s", "y">>,
      <<"4", "8", "6">>,
      <<"n", "o", " ", "a", "n", "s", "w", "e", "r">>,
      <<"n", "o", "a", "n", "s", "w", "e", "r">>,
      <<"r", "e", "j", "e", "c", "t", "e", "d">>,
      <<"6", "0", "3">>,
      <<"r", "a", "t", "e", " ", "l", "i", "m", "i", "t">>,
      <<"4", "2", "9">>,
      <<"c", "a", "p", "a", "c", "i", "t", "y">>,
      <<"5", "0", "3">>,
      <<"b", "o", "o", "m">>,
      <<"s", "e", "c", "r", "e", "t", " ", "a", "b", "c">>,
      <<"s", "e", "c", "r", "e", "t", " ", "x", "y", "z">>,
      <<"P", "A", "S", "S", "W", "O", "R", "D">>,
      <<"m", "o", "n", "k", "e", "y">>,
      <<>> }

Messages == Words \cup {a \o <<" ">> \o b : a, b \in Words}

ErrorInputs ==
    {ProviderError("Exception", StrArg(m)) : m \in Messages}
    \cup {ProviderError("KeyError", StrArg(m)) : m \in Words}
    \cup {ProviderError(t, IntArg(n)) : t \in {"Exception", "ValueError"},
                                        n \in {0, 401, 12345}}
    \cup {ProviderError("Exception", NoneArg), ProviderError("Exception", NoArg)}

InitClassify ==
    /\ sessions = <<>>
    /\ events = <<>>
    /\ clock = 1
    /\ nreq = 0
    /\ lastReq = Summary(Request(None, InvalidBody))
    /\ lastResp = 0
    /\ calls = 0
    /\ callResult = None
    /\ event_store = EventStore(MaxEvents)
    /\ lastQuery = NoQuery
    /\ hangups = <<>>
    /\ observer = VoicePipelineObserver(DefaultConfig)
    /\ nsig = 0
    /\ greeted = FALSE
    /\ lastError \in ErrorInputs

\* classify_error is called on the error.
ClassifyError ==
    /\ calls < MaxClassify
    /\ callResult' = classify_error(lastError)
    /\ calls' = calls + 1
    /\ UNCHANGED <<sessions, events, clock, nreq, lastReq, lastResp, observer, nsig,
                   greeted, event_store, lastQuery, hangups, lastError>>

\* handle_error is called on the error, for a session id the caller holds.
HandleAnyError ==
    /\ calls < MaxClassify
    /\ \E direction \in {"inbound", "outbound"} :
        LET r == handle_error(events, 1, lastError, direction)
        IN /\ events' = r.events
           /\ callResult' = r.category
    /\ calls' = calls + 1
    /\ UNCHANGED <<sessions, clock, nreq, lastReq, lastResp, observer, nsig, greeted,
                   event_store, lastQuery, hangups, lastError>>

NextClassify ==
    \/ ClassifyError
    \/ HandleAnyError

SpecClassify == InitClassify /\ [][NextClassify]_vars

\* The control-plane process as a whole: webhooks, hangup requests of the
\* control API, and provider errors handed to the error handler.
ProviderErrors ==
    { ProviderError("Exception", StrArg(<<"b", "u", "s", "y", " ", "4", "8", "6">>)),
      ProviderError("Exception", StrArg(<<"4", "2", "9", " ", "a", "p", "i", " ", "k", "e", "y">>)),
      ProviderError("TimeoutError", StrArg(<<"a", "u", "t", "h", " ", "t", "i", "m", "e", "o", "u", "t">>)),
      ProviderError("Exception", NoArg) }

ControlBudget == nreq + calls + Len(hangups) < MaxControl

ControlWebhook ==
    /\ ControlBudget
    /\ \E a \in Auths,
          b \in RoomStartedBodies \cup RoomFinishedBodies :
            Deliver(Request(a, b))

\* POST /control/call/hangup arrives and runs to its await.
HangupReceived ==
    /\ ControlBudget
    /\ \E session_id \in Rooms \cup {SessionId(n) : n \in 1..Len(sessions)}, dt \in Elapsed :
        LET r == hangup_call_received([sessions |-> sessions, events |-> events,
                                        event_store |-> event_store],
                                      session_id, clock + dt)
        IN /\ clock' = clock + dt
           /\ sessions' = r.w.sessions
           /\ events' = r.w.events
           /\ event_store' = r.w.event_store
           /\ hangups' = Append(hangups, r.h)
    /\ UNCHANGED <<nreq, lastReq, lastResp, calls, callResult, observer, nsig,
                   greeted, lastQuery, lastError>>

\* The provider's delete_room call of a waiting hangup request ends.
HangupApplied ==
    \E k \in 1..Len(hangups), outcome \in DeleteRoomOutcomes, dt \in Elapsed :
        /\ hangups[k].pc = "delete_room"
        /\ LET r == hangup_call_applied([sessions |-> sessions, events |-> events,
                                          event_store |-> event_store],
                                        hangups[k], outcome, clock + dt)
           IN /\ clock' = clock + dt
              /\ sessions' = r.w.sessions
              /\ events' = r.w.events
              /\ event_store' = r.w.event_store
              /\ hangups' = [hangups EXCEPT ![k] = r.h]
        /\ UNCHANGED <<nreq, lastReq, lastResp, calls, callResult, observer,
                       nsig, greeted, lastQuery, lastError>>

\* ProviderErrorHandler.handle_error is called for a session of the registry.
HandleError ==
    /\ ControlBudget
    /\ \E sid \in 1..Len(sessions), error \in ProviderErrors,
          direction \in {"inbound", "outbound"} :
        LET r == handle_error(events, sid, error, direction)
        IN /\ events' = r.events
           /\ callResult' = r.category
           /\ lastError' = error
    /\ calls' = calls + 1
    /\ clock' = clock + 1
    /\ UNCHANGED <<sessions, nreq, lastReq, lastResp, observer, nsig, greeted,
                   event_store, lastQuery, hangups>>

InitControl ==
    /\ ControlPlaneIdle
    /\ observer = VoicePipelineObserver(DefaultConfig)
    /\ nsig = 0
    /\ greeted = FALSE

NextControl ==
    \/ ControlWebhook
    \/ HangupReceived
    \/ HangupApplied
    \/ HandleError

SpecControl == InitControl /\ [][NextControl]_vars

----------------------------------------------------------------------------
\* The hangup endpoint over a stdout that can fail.

\* POST /control/call/hangup arrives and runs to its await, or to the
\* exception its first emit raises.
HangupReceivedSink ==
    /\ Len(hangups) < MaxSinkRequests
    /\ \E session_id \in Rooms, dt \in Elapsed, sink \in SinkOutcomes :
        LET r == hangup_call_received_sink([sessions |-> sessions, events |-> events,
                                             event_store |-> event_store],
                                           session_id, clock + dt, sink)
        IN /\ clock' = clock + dt
           /\ sessions' = r.w.sessions
           /\ events' = r.w.events
           /\ event_store' = r.w.event_store
           /\ hangups' = Append(hangups, r.h)
    /\ UNCHANGED <<nreq, lastReq, lastResp, calls, callResult, observer, nsig,
                   greeted, lastQuery, lastError>>

\* The provider's delete_room call of a waiting hangup request ends, and the
\* request runs to its response or to the exception its emit raises.
HangupAppliedSink ==
    \E k \in 1..Len(hangups), outcome \in DeleteRoomOutcomes, dt \in Elapsed,
       sink \in SinkOutcomes :
        /\ hangups[k].pc = "delete_room"
        /\ LET r == hangup_call_applied_sink([sessions |-> sessions, events |-> events,
                                               event_store |-> event_store],
                                             hangups[k], outcome, clock + dt, sink)
           IN /\ clock' = clock + dt
              /\ sessions' = r.w.sessions
              /\ events' = r.w.events
              /\ event_store' = r.w.event_store
              /\ hangups' = [hangups EXCEPT ![k] = r.h]
        /\ UNCHANGED <<nreq, lastReq, lastResp, calls, callResult, observer,
                       nsig, greeted, lastQuery, lastError>>

NextSink ==
    \/ HangupReceivedSink
    \/ HangupAppliedSink

SpecSink == InitControl /\ [][NextSink]_vars

----------------------------------------------------------------------------
\* Vocabulary of the properties.

\* The sessions that have the room.
Owners(ss, room) == {i \in 1..Len(ss) : ss[i].livekit_room = room}

\* The number of events of a type in a stream.
CountType(evs, event_type) ==
    Cardinality({k \in 1..Len(evs) : evs[k].event_type = event_type})

EndedSessions(ss) == {i \in 1..Len(ss) : ss[i].state = ENDED}

WebhookRequests(bodies) == {Request(a, b) : a \in Auths, b \in bodies}

RoomStartedRequests == WebhookRequests(RoomStartedBodies)
\* The participant_joined request with the logged authorization, room and
\* sid, and the given identity and metadata.
JoinedRequest(logged, identity, metadata) ==
    Request(logged.auth,
            JsonBody(EventData("participant_joined", logged.room, logged.sid,
                               identity, metadata, None)))
TerminatingRequests == WebhookRequests(ParticipantLeftBodies \cup RoomFinishedBodies)

\* The edges of the state DAG of CP-01: inbound enters at inbound_ringing,
\* outbound at created -> dialing -> ringing, both converge at connected,
\* termination goes * -> ending -> ended.
DagEdge(a, b) ==
    \/ a = CREATED /\ b = DIALING
    \/ a = DIALING /\ b = RINGING
    \/ a = RINGING /\ b = CONNECTED
    \/ a = INBOUND_RINGING /\ b = CONNECTED
    \/ a \notin {ENDING, ENDED} /\ b = ENDING
    \/ a = ENDING /\ b = ENDED

\* b is reachable from a along the DAG in one or more edges (the longest path
\* has six edges).
RECURSIVE DagPath(_, _, _)
DagPath(a, b, n) ==
    \/ DagEdge(a, b)
    \/ n > 0 /\ \E c \in SessionState : DagEdge(a, c) /\ DagPath(c, b, n - 1)

\* b is strictly earlier in the DAG than a.
Earlier(b, a) == a # b /\ DagPath(b, a, 6)

----------------------------------------------------------------------------
\* C1: over every sequence of webhooks, no session is ever given a state that
\* is earlier in the DAG than the state it had: every entry of a session's
\* trail is the same as, or not earlier than, the entry before it, and the
\* session's state is the last entry.
StateNeverRegresses ==
    \A i \in 1..Len(sessions) :
        LET trail == sessions[i].trail IN
        /\ sessions[i].state = trail[Len(trail)]
        /\ \A k \in 1..(Len(trail) - 1) : ~Earlier(trail[k + 1], trail[k])

\* C1 witness: a participant_joined handled for a session after its
\* call.ended, with the session still ended.
LateWebhookAbsorbed ==
    \E i \in 1..Len(sessions) :
        /\ sessions[i].state = ENDED
        /\ \E k \in 1..Len(events), l \in 1..Len(events) :
            /\ k < l
            /\ events[k].event_type = "call.ended" /\ events[k].session_id = i
            /\ events[l].event_type = "livekit.participant.joined"
            /\ events[l].session_id = i

----------------------------------------------------------------------------
\* C2: in every reachable state of the registry under create_session,
\* transition_to, end and webhooks, a session has an ended_at if and only if
\* its state is ended.
EndedAtIffEnded ==
    \A i \in 1..Len(sessions) :
        (sessions[i].ended_at # Null) <=> (sessions[i].state = ENDED)

----------------------------------------------------------------------------
\* C3: the inbound happy path, from the empty registry: room_started(R1),
\* participant_joined(R1, P1, sip identity, phone_number N1),
\* participant_left(R1, P1).

C3_Started ==
    Request("signed",
            JsonBody(EventData("room_started", "R1", None, NoIdentity, NoMetadata, None)))
C3_Joined ==
    Request("signed",
            JsonBody(EventData("participant_joined", "R1", "P1", SipIdentity,
                               JsonMetadata("N1"), None)))
C3_Left ==
    Request("signed",
            JsonBody(EventData("participant_left", "R1", "P1", NoIdentity, NoMetadata, None)))

C3_Ringing ==
    [ state |-> INBOUND_RINGING, direction |-> "inbound", created_at |-> At(1),
      livekit_room |-> "R1", livekit_participant |-> None,
      caller_number |-> None, callee_number |-> None,
      ended_at |-> Null, end_reason |-> None,
      trail |-> <<INBOUND_RINGING>> ]
C3_Connected ==
    [C3_Ringing EXCEPT !.state = CONNECTED, !.livekit_participant = "P1",
                       !.caller_number = "N1",
                       !.trail = <<INBOUND_RINGING, CONNECTED>>]
C3_Ended ==
    [C3_Connected EXCEPT !.state = ENDED, !.ended_at = At(3),
                         !.end_reason = "participant_left",
                         !.trail = <<INBOUND_RINGING, CONNECTED, ENDING, ENDED>>]

C3_EvRoomCreated == [Event("livekit.room.created", 1) EXCEPT !.room = "R1"]
C3_EvCallStarted ==
    [Event("call.started", 1) EXCEPT !.direction = "inbound", !.room = "R1"]
C3_EvJoined ==
    [Event("livekit.participant.joined", 1) EXCEPT !.room = "R1", !.participant = "P1"]
C3_EvStateChanged ==
    [Event("session.state_changed", 1) EXCEPT
        !.from_state = INBOUND_RINGING, !.to_state = CONNECTED]
C3_EvAnswered ==
    [Event("call.answered", 1) EXCEPT !.room = "R1", !.participant = "P1"]
C3_EvLeft ==
    [Event("livekit.participant.left", 1) EXCEPT !.room = "R1", !.participant = "P1"]
C3_EvEnded ==
    [Event("call.ended", 1) EXCEPT
        !.reason = "participant_left", !.room = "R1", !.participant = "P1"]

\* The events of the second webhook, as the claim orders them and as the
\* handler emits them.
C3_JoinedFirst == <<C3_EvJoined, C3_EvStateChanged, C3_EvAnswered>>
C3_JoinedLast == <<C3_EvStateChanged, C3_EvAnswered, C3_EvJoined>>

C3_World1 ==
    [sessions |-> <<C3_Ringing>>, events |-> <<C3_EvRoomCreated, C3_EvCallStarted>>]
C3_World2(joined) ==
    [sessions |-> <<C3_Connected>>, events |-> C3_World1.events \o joined]
C3_World3(joined) ==
    [sessions |-> <<C3_Ended>>,
     events |-> C3_World2(joined).events \o <<C3_EvLeft, C3_EvEnded>>]

\* Each webhook of the scenario takes the registry and the stream from the
\* expected world to the next expected world.
C3_Scenario(joined) ==
    /\ (nreq = 0 /\ Deliver(C3_Started)) => World' = C3_World1
    /\ (nreq = 1 /\ World = C3_World1 /\ Deliver(C3_Joined)) => World' = C3_World2(joined)
    /\ (nreq = 2 /\ World = C3_World2(joined) /\ Deliver(C3_Left)) => World' = C3_World3(joined)

\* C3 as stated: the scenario yields one inbound session with trail
\* inbound_ringing, connected, ending, ended, caller_number N1 and end_reason
\* participant_left, and the stream livekit.room.created, call.started,
\* livekit.participant.joined, session.state_changed, call.answered,
\* livekit.participant.left, call.ended.
HappyPathJoinedFirst == [][C3_Scenario(C3_JoinedFirst)]_vars

\* C3 as amended: the same session, and the stream livekit.room.created,
\* call.started, session.state_changed, call.answered,
\* livekit.participant.joined, livekit.participant.left, call.ended.
HappyPathJoinedLast == [][C3_Scenario(C3_JoinedLast)]_vars

\* C3 witness: the scenario has run to its end.
HappyPathDone == nreq = 3 /\ World = C3_World3(C3_JoinedLast)

----------------------------------------------------------------------------
\* C4: a room_started for a room that a session already owns creates no
\* session, changes no session (an ended one stays ended) and emits exactly
\* one event, the livekit.room.created of the owning session.
RoomStartedForOwnedRoom ==
    [][\A req \in RoomStartedRequests :
          LET room == req.body.data.room IN
          (Owners(sessions, room) # {} /\ Deliver(req)) =>
              /\ sessions' = sessions
              /\ \E i \in Owners(sessions, room) :
                    events' = Append(events,
                                     [Event("livekit.room.created", i) EXCEPT !.room = room])
      ]_vars

\* C4 witness: the last event is a livekit.room.created of an ended session
\* that comes after the session's call.ended (a room_started after
\* room_finished), and the registry still has that one session.
LateRoomStartedAbsorbed ==
    /\ Len(sessions) = 1
    /\ sessions[1].state = ENDED
    /\ sessions[1].end_reason = "room_finished"
    /\ Len(events) >= 2
    /\ events[Len(events)].event_type = "livekit.room.created"
    /\ events[Len(events)].session_id = 1
    /\ events[Len(events) - 1].event_type = "call.ended"

----------------------------------------------------------------------------
\* C5: no two sessions have the same room, get_session_by_room returns the
\* one session that owns a room (None when there is none), and no step
\* changes a room that is assigned.
RoomsUnique(ss) ==
    /\ \A i \in 1..Len(ss), j \in 1..Len(ss) :
          (i # j /\ ss[i].livekit_room # None) => ss[i].livekit_room # ss[j].livekit_room
    /\ \A room \in Rooms :
          Owners(ss, room) = IF get_session_by_room(ss, room) = 0
                             THEN {}
                             ELSE {get_session_by_room(ss, room)}

RoomOwnershipStable ==
    [][ /\ RoomsUnique(sessions)
        /\ RoomsUnique(sessions')
        /\ \A i \in 1..Len(sessions) :
              /\ i <= Len(sessions')
              /\ sessions[i].livekit_room # None =>
                    sessions'[i].livekit_room = sessions[i].livekit_room
      ]_vars

\* C5 witness: two sessions with different rooms, after a second webhook
\* that carried the room of the first one.
SameRoomTwice ==
    /\ Len(sessions) = 2
    /\ sessions[1].livekit_room = "R1"
    /\ sessions[2].livekit_room = "R2"
    /\ Cardinality({k \in 1..Len(events) : events[k].room = "R1"}) >= 3

----------------------------------------------------------------------------
\* C6: of the requests that reach the handler (they carry an Authorization
\* header), a participant_left for the recorded caller participant of a
\* session that is not ended, and a room_finished for a session that is not
\* ended, end that session (state ended through ending, end_reason the webhook's
\* reason) and emit one call.ended with that reason as the last event; every
\* other participant_left or room_finished changes no session and emits no
\* call.ended; and no other step of the webhook service ends a session or
\* emits call.ended.

C6_Reason(req) ==
    IF req.body.data.event = "participant_left" THEN "participant_left" ELSE "room_finished"

C6_Terminates(req) ==
    LET ed == req.body.data IN
    /\ ed.room # None
    /\ \E i \in Owners(sessions, ed.room) :
          /\ sessions[i].state # ENDED
          /\ ed.event = "participant_left" =>
                (ed.sid # None /\ sessions[i].livekit_participant = ed.sid)

C6_Ended(req) ==
    LET ed == req.body.data
        reason == C6_Reason(req)
    IN  \E i \in Owners(sessions, ed.room) :
          /\ sessions' = [sessions EXCEPT
                            ![i].state = ENDED,
                            ![i].ended_at = At(clock),
                            ![i].end_reason = reason,
                            ![i].trail = @ \o <<ENDING, ENDED>>]
          /\ CountType(events', "call.ended") = CountType(events, "call.ended") + 1
          /\ events'[Len(events')].event_type = "call.ended"
          /\ events'[Len(events')].reason = reason
          /\ events'[Len(events')].session_id = i

C6_Untouched ==
    /\ sessions' = sessions
    /\ CountType(events', "call.ended") = CountType(events, "call.ended")

WebhookEndsSessionExactly ==
    [][ /\ lastReq'.event \in {"participant_left", "room_finished"} =>
              \A req \in TerminatingRequests :
                 Deliver(req) => IF C6_Terminates(req) THEN C6_Ended(req) ELSE C6_Untouched
        /\ ( \/ EndedSessions(sessions') # EndedSessions(sessions)
             \/ CountType(events', "call.ended") # CountType(events, "call.ended") )
           => \E req \in TerminatingRequests :
                  C6_Terminates(req) /\ Deliver(req)
      ]_vars

\* C6 witness: a session ended by the participant_left of its caller, with
\* its call.ended, and a further webhook handled after that.
EndedByCallerLeaving ==
    \E i \in 1..Len(sessions) :
        /\ sessions[i].state = ENDED
        /\ sessions[i].end_reason = "participant_left"
        /\ sessions[i].livekit_participant = "P1"
        /\ CountType(events, "call.ended") = 1
        /\ events[Len(events)].event_type # "call.ended"

----------------------------------------------------------------------------
\* C7: what a participant_joined does.

C7_CallerIdentities == {SipIdentity, PhoneIdentity}

\* The effect the claim describes for a participant_joined.
C7_Joined(req) ==
    LET ed == req.body.data
        owners == Owners(sessions, ed.room)
        sid == IF owners = {} THEN Len(sessions) + 1 ELSE CHOOSE i \in owners : TRUE
        caller == ed.identity \in C7_CallerIdentities
        unset == owners = {} \/ sessions[sid].livekit_participant = None
        ringing == owners = {} \/ sessions[sid].state = INBOUND_RINGING
        last == Len(events')
    IN  /\ CountType(events', "livekit.participant.joined")
             = CountType(events, "livekit.participant.joined") + 1
        /\ events'[last] = [Event("livekit.participant.joined", sid) EXCEPT
                               !.room = ed.room, !.participant = ed.sid]
        /\ Len(sessions') = IF owners = {} THEN Len(sessions) + 1 ELSE Len(sessions)
        /\ \A j \in 1..Len(sessions) : j # sid => sessions'[j] = sessions[j]
        /\ IF caller /\ unset
           THEN /\ sessions'[sid].livekit_participant = ed.sid
                /\ ringing =>
                      /\ sessions'[sid].state = CONNECTED
                      /\ last - 2 > Len(events)
                      /\ events'[last - 2] =
                            [Event("session.state_changed", sid) EXCEPT
                                !.from_state = INBOUND_RINGING, !.to_state = CONNECTED]
                      /\ events'[last - 1] =
                            [Event("call.answered", sid) EXCEPT
                                !.room = ed.room, !.participant = ed.sid]
                /\ ~ringing => sessions'[sid].state = sessions[sid].state
           ELSE /\ owners # {} => sessions'[sid] = sessions[sid]
                /\ CountType(events', "call.answered") = CountType(events, "call.answered")
                /\ CountType(events', "session.state_changed")
                     = CountType(events, "session.state_changed")

\* Over any step, a participant that is set stays as it is.
C7_SetOnce ==
    \A j \in 1..Len(sessions) :
        sessions[j].livekit_participant # None =>
            sessions'[j].livekit_participant = sessions[j].livekit_participant

\* C7 as stated: every participant_joined records the participant only for
\* a caller identity on a session without participant (connecting an
\* inbound_ringing session, session.state_changed before call.answered),
\* emits exactly one livekit.participant.joined, and with a non-caller
\* identity changes no field of a session; a participant is set at most once.
EveryJoinedEmitsJoined ==
    [][ /\ C7_SetOnce
        /\ lastReq'.event = "participant_joined" =>
              \A identity \in Identities, metadata \in Metadatas :
                 LET req == JoinedRequest(lastReq', identity, metadata) IN
                 Deliver(req) => C7_Joined(req)
      ]_vars

\* C7 as amended: the same for every participant_joined that names a room
\* and a participant sid; one that lacks either is dropped, with no event
\* and no change.
NamedJoinedEmitsJoined ==
    [][ /\ C7_SetOnce
        /\ lastReq'.event = "participant_joined" =>
              \A identity \in Identities, metadata \in Metadatas :
                 LET req == JoinedRequest(lastReq', identity, metadata) IN
                 Deliver(req) =>
                     IF req.body.data.room # None /\ req.body.data.sid # None
                     THEN C7_Joined(req)
                     ELSE sessions' = sessions /\ events' = events
      ]_vars

\* C7 witness: a connected session that recorded the caller P1 and then saw
\* a second caller identity, P2, join: two livekit.participant.joined, one
\* call.answered, the participant still P1.
SecondCallerNotRecorded ==
    \E i \in 1..Len(sessions) :
        /\ sessions[i].state = CONNECTED
        /\ sessions[i].livekit_participant = "P1"
        /\ CountType(events, "call.answered") = 1
        /\ \E k \in 1..Len(events) :
              /\ events[k].event_type = "livekit.participant.joined"
              /\ events[k].session_id = i
              /\ events[k].participant = "P2"
        /\ \E k \in 1..Len(events) :
              /\ events[k].event_type = "livekit.participant.joined"
              /\ events[k].session_id = i
              /\ events[k].participant = "P1"

----------------------------------------------------------------------------
\* C8: transition_to with a new state that is earlier in the DAG than the
\* session's state, or on a session that is ended, fails as an error and
\* leaves the state as it was.
NonMonotonicTransitionRejected ==
    [][\A sid \in 1..MaxSessions, new_state \in SessionState :
          ( /\ CallTransitionTo(sid, new_state)
            /\ \/ Earlier(new_state, sessions[sid].state)
               \/ sessions[sid].state = ENDED )
          => /\ callResult' = "raised"
             /\ sessions'[sid].state = sessions[sid].state
      ]_vars

----------------------------------------------------------------------------
\* C9: end on a session that is already ended, with any reason, leaves its
\* state, ended_at and end_reason as they were.
EndIsIdempotent ==
    [][\A sid \in 1..MaxSessions, reason \in EndReasons :
          (CallEnd(sid, reason) /\ sessions[sid].state = ENDED)
          => /\ sessions'[sid].state = sessions[sid].state
             /\ sessions'[sid].ended_at = sessions[sid].ended_at
             /\ sessions'[sid].end_reason = sessions[sid].end_reason
      ]_vars

----------------------------------------------------------------------------
\* C10: a webhook whose token fails signature verification, whatever its
\* body, creates no session, changes no session and emits no event.
ForgedWebhookRejected ==
    [][\A b \in RoomStartedBodies \cup ParticipantJoinedBodies \cup ParticipantLeftBodies
                \cup TrackPublishedBodies \cup RoomFinishedBodies \cup OtherBodies :
          Deliver(Request("forged", b))
          => /\ sessions' = sessions
             /\ events' = events
      ]_vars

----------------------------------------------------------------------------
\* C11: POST /webhook answers by outcome class.  A request without
\* Authorization header and a request whose body is not valid JSON are each
\* answered 4xx, a request with an unknown event kind is answered 2xx, and
\* none of the three creates or changes a session.
C11_NoAuth == {Request(None, b) : b \in RoomStartedBodies \cup RoomFinishedBodies}
C11_InvalidJson == {Request(a, InvalidBody) : a \in Auths}
C11_UnknownKind == {Request(a, b) : a \in Auths, b \in OtherBodies \ {InvalidBody}}

AnswersByOutcomeClass ==
    [][/\ \A req \in C11_NoAuth \cup C11_InvalidJson :
            Deliver(req) => lastResp' \in 400..499 /\ sessions' = sessions
       /\ \A req \in C11_UnknownKind :
            Deliver(req) => lastResp' \in 200..299 /\ sessions' = sessions
      ]_vars

----------------------------------------------------------------------------
\* Vocabulary of the Observer properties.

\* The events of the given types in a record of outputs, in order.
EventsOf(out, types) ==
    LET Wanted(e) == e.op = "emit" /\ e.name \in types
    IN SelectSeq(out, Wanted)

\* The events of the given types that carry the correlation id, in order.
EventsOfTurn(out, types, turn_id) ==
    LET Wanted(e) == e.op = "emit" /\ e.name \in types /\ e.corr = turn_id
    IN SelectSeq(out, Wanted)

\* The event types of a sequence of outputs.
Names(out) == [k \in 1..Len(out) |-> out[k].name]

\* The turns the Observer started: the correlation ids of its turn.started.
StartedTurns(out) == {out[k].corr : k \in {j \in 1..Len(out) : out[j].name = "turn.started"}}

\* The number of outputs with the name.
CountName(out, name) == Cardinality({k \in 1..Len(out) : out[k].name = name})

----------------------------------------------------------------------------
\* C12: for every turn the Observer started, the stt.final, turn.started and
\* llm.request events that carry its turn_id are, in the stream, exactly
\* stt.final, then turn.started, then llm.request.
TurnStartOrder ==
    \A turn_id \in StartedTurns(observer.out) :
        Names(EventsOfTurn(observer.out, {"stt.final", "turn.started", "llm.request"}, turn_id))
            = <<"stt.final", "turn.started", "llm.request">>

----------------------------------------------------------------------------
\* C13: one turn per utterance.  A final transcript that does not directly
\* follow the thinking signal (it is the first signal of its utterance) emits
\* exactly one turn.started and one llm.request; a thinking signal that
\* does not directly follow a final transcript does the same; a final
\* transcript directly after thinking, and thinking
\* directly after a final transcript (the other signal of the same
\* utterance), emit no turn.started and no llm.request.
C13_Started(n) ==
    /\ CountName(observer'.out, "turn.started") = CountName(observer.out, "turn.started") + n
    /\ CountName(observer'.out, "llm.request") = CountName(observer.out, "llm.request") + n

OneTurnPerUtterance ==
    [][/\ UserInputTranscribed
            => C13_Started(IF observer.last_signal = "agent_thinking" THEN 0 ELSE 1)
       /\ (AgentStateChanged /\ observer'.last_signal = "agent_thinking")
            => C13_Started(IF observer.last_signal = "user_input_transcribed" THEN 0 ELSE 1)
      ]_vars

----------------------------------------------------------------------------
\* C14: in the stream, every tts.started of a turn comes after an
\* llm.response of that turn, which comes after an llm.request of that turn,
\* and every tts.stopped of a turn comes after a tts.started of that turn.
C14_Before(out, k, name) ==
    {j \in 1..(k - 1) : out[j].name = name /\ out[j].corr = out[k].corr}

ResponseBeforeSpeech ==
    LET out == observer.out IN
    \A k \in 1..Len(out) :
        out[k].corr # SessionCorr =>
            /\ out[k].name = "tts.started" =>
                \E j \in C14_Before(out, k, "llm.response") :
                    C14_Before(out, j, "llm.request") # {}
            /\ out[k].name = "tts.stopped" => C14_Before(out, k, "tts.started") # {}

----------------------------------------------------------------------------
\* Vocabulary of the timer properties.

Tasks == 1..Len(observer.tasks)

\* A task that still has a step of its coroutine body to run.  (A processing
\* timer cancelled in say has only its finally block left.)
Pending(t) == observer.tasks[t].pc \notin Over \cup {"cancelled_in_say"}

\* The outputs a timer makes or causes: the events about timers and the
\* calls into the session and the control plane.
TimerOutput(e) ==
    \/ e.op \in {"say", "request_hangup", "aclose"}
    \/ e.name \in {"silence.timer_started", "silence.timer_fired", "ux.delay_acknowledged",
                   "call.duration_warning", "call.ended"}

\* The outputs of a record that were made after close was handled.
AfterClose(out) == {k \in 1..Len(out) : out[k].closed /\ TimerOutput(out[k])}

----------------------------------------------------------------------------
\* C15: once close has been handled, no timer task is pending, and nothing a
\* timer makes or causes (silence.timer_started, silence.timer_fired,
\* ux.delay_acknowledged, call.duration_warning, call.ended, say,
\* request_hangup, aclose) has happened after it.
NoTimerAfterClose ==
    observer.closed =>
        /\ \A t \in Tasks : ~Pending(t)
        /\ \A t \in Tasks : AfterClose(observer.tasks[t].out) = {}
        /\ AfterClose(observer.out) = {}

----------------------------------------------------------------------------
\* What a user-silence timer does, output by output.

Shape(e) == <<e.op, e.name, e.corr, e.arg, e.ms>>
Shapes(out) == [k \in 1..Len(out) |-> Shape(out[k])]

IsPrefix(a, b) == Len(a) <= Len(b) /\ \A k \in 1..Len(a) : a[k] = b[k]

UserSilenceTasks == {t \in Tasks : observer.tasks[t].kind = "user_silence"}

RepromptPolicy ==
    observer.silence.user_silence_reprompt_ms < observer.silence.user_silence_close_ms

\* The close sequence of a timer that captured the correlation id: the
\* closing phrase, call.ended, the hangup request, and aclose.
CloseSequence(corr) ==
    << <<"say", ClosingPhrase, SessionCorr, None, Null>>,
       <<"emit", "call.ended", corr, "user_silence_timeout", Null>>,
       <<"request_hangup", None, SessionCorr, None, Null>>,
       <<"aclose", None, SessionCorr, None, Null>> >>

\* The output of the task is the start of the expected sequence, it is the
\* whole sequence but for the aclose once the task is done, and the aclose is
\* there if and only if request_hangup returned False.
Follows(t, expected) ==
    LET task == observer.tasks[t] IN
    /\ IsPrefix(Shapes(task.out), expected)
    /\ task.pc = "done" => Len(task.out) >= Len(expected) - 1
    /\ task.pc = "done" /\ task.cp_ok = "False" => Len(task.out) = Len(expected)
    /\ Len(task.out) = Len(expected) => task.cp_ok = "False"

----------------------------------------------------------------------------
\* C16: with REPROMPT_MS < CLOSE_MS, what a user-silence timer does is, in
\* this order: sleep REPROMPT_MS, silence.timer_fired{kind: user}, say "Ben
\* je er nog?", sleep CLOSE_MS - REPROMPT_MS, say the closing phrase,
\* call.ended{reason: user_silence_timeout}, the hangup request, and then
\* aclose if and only if the hangup request did not succeed.  A timer that is
\* cancelled stops somewhere in this sequence; one that is not runs it to
\* the end.
C16_Expected(corr) ==
    << <<"sleep", None, SessionCorr, None, At(observer.silence.user_silence_reprompt_ms)>>,
       <<"emit", "silence.timer_fired", corr, "user", Null>>,
       <<"say", RepromptPhrase, SessionCorr, None, Null>>,
       <<"sleep", None, SessionCorr, None,
         At(observer.silence.user_silence_close_ms - observer.silence.user_silence_reprompt_ms)>> >>
    \o CloseSequence(corr)

RepromptThenClose ==
    RepromptPolicy =>
        \A t \in UserSilenceTasks : Follows(t, C16_Expected(observer.tasks[t].started_turn))

\* C16 witness: under the reprompt policy a timer armed by
\* agent_stopped_speaking has run to its end, aclose included.
RepromptThenCloseDone ==
    /\ RepromptPolicy
    /\ \E t \in UserSilenceTasks :
        /\ observer.tasks[t].pc = "done"
        /\ Len(observer.tasks[t].out) = 8
        /\ observer.last_signal = "agent_stopped_speaking"

----------------------------------------------------------------------------
\* C17: while the user has never been active and no close was handled, "Ben
\* je er nog?" is said at most once in the call.
Reprompts ==
    {<<t, k>> \in Tasks \X (1..8) :
        /\ k <= Len(observer.tasks[t].out)
        /\ observer.tasks[t].out[k].name = RepromptPhrase}

AtMostOneReprompt ==
    (observer.last_user_activity_ts = Null /\ ~observer.closed) => Cardinality(Reprompts) <= 1

----------------------------------------------------------------------------
\* C18: with CLOSE_MS <= REPROMPT_MS, what a user-silence timer does is, in
\* this order: sleep CLOSE_MS, say the closing phrase,
\* call.ended{reason: user_silence_timeout}, the hangup request, and aclose
\* if and only if the hangup request did not succeed; it never emits
\* silence.timer_fired and never says "Ben je er nog?".
C18_Expected(corr) ==
    << <<"sleep", None, SessionCorr, None, At(observer.silence.user_silence_close_ms)>> >>
    \o CloseSequence(corr)

CloseOnly ==
    ~RepromptPolicy =>
        \A t \in UserSilenceTasks : Follows(t, C18_Expected(observer.tasks[t].started_turn))

\* C18 witness: with CLOSE_MS = REPROMPT_MS a timer has run to its end with
\* a hangup request that succeeded.
CloseOnlyDone ==
    /\ observer.silence.user_silence_close_ms = observer.silence.user_silence_reprompt_ms
    /\ \E t \in UserSilenceTasks :
        /\ observer.tasks[t].pc = "done"
        /\ observer.tasks[t].cp_ok = "True"
        /\ Len(observer.tasks[t].out) = 4

----------------------------------------------------------------------------
\* C19: after user_started_speaking, user_stopped_speaking, a user state
\* speaking or a transcript has been handled, no user-silence timer is
\* pending; and a user-silence timer that is over does nothing any more.
UserActivity ==
    \/ UserStartedSpeaking
    \/ UserStoppedSpeaking
    \/ UserStateChanged /\ observer'.last_signal = "user_speaking"
    \/ UserInputTranscribed

UserActivityCancelsSilenceTimer ==
    [][/\ UserActivity =>
            /\ observer'.user_silence_timer = NoTask
            /\ \A t \in 1..Len(observer'.tasks) :
                observer'.tasks[t].kind = "user_silence" => observer'.tasks[t].pc \in Over
       /\ \A t \in UserSilenceTasks :
            observer.tasks[t].pc \in Over => observer'.tasks[t] = observer.tasks[t]
      ]_vars

\* C19 witness: user_stopped_speaking was handled while a user-silence timer
\* was suspended in its reprompt, and the timer is cancelled.
SilenceTimerCancelledInReprompt ==
    /\ observer.last_signal = "user_stopped_speaking"
    /\ \E t \in UserSilenceTasks :
        /\ observer.tasks[t].pc = "cancelled"
        /\ Len(observer.tasks[t].out) = 3

----------------------------------------------------------------------------
\* C20: a processing timer that was armed before a user speech or transcript
\* signal does nothing after that signal (no silence.timer_fired, no
\* ux.delay_acknowledged, no say).
ArmedBeforeUserActivity(t) ==
    /\ observer.tasks[t].kind = "processing"
    /\ observer.last_user_activity_ts # Null
    /\ observer.tasks[t].armed_at <= observer.last_user_activity_ts[1]

UserActivityCancelsProcessingTimer ==
    [][\A t \in Tasks :
          ArmedBeforeUserActivity(t) => observer'.tasks[t].out = observer.tasks[t].out
      ]_vars

----------------------------------------------------------------------------
\* C21: once agent_started_speaking has been handled, every user-silence
\* timer that existed before it is over (no timer is left in the Observer's
\* field), and from then on such a timer produces nothing: no reprompt, no
\* closing phrase, no call.ended, no hangup request.
SegmentStartCancelsSilenceTimer ==
    [][AgentStartedSpeaking =>
          /\ observer'.user_silence_timer = NoTask
          /\ \A t \in UserSilenceTasks :
                /\ observer'.tasks[t].pc \in Over
                /\ observer'.tasks[t].out = observer.tasks[t].out
      ]_vars

\* C21 witness: the user-silence timer armed when a segment completed was
\* cancelled by the start of the next segment.
SilenceTimerCancelledBySegment ==
    /\ observer.last_signal = "agent_started_speaking"
    /\ observer.tts_playing
    /\ observer.last_agent_prompt_ts # Null
    /\ \E t \in UserSilenceTasks :
        /\ observer.tasks[t].pc = "cancelled"
        /\ observer.tasks[t].armed_at = observer.last_agent_prompt_ts[1]

----------------------------------------------------------------------------
\* C22: a processing timer whose sleep ends acts if and only if TTS is not
\* playing and no delay acknowledgement was spoken for the current turn; it
\* then emits silence.timer_fired{kind: processing} and
\* ux.delay_acknowledged{message_key: delay_ack.thinking} for the current
\* turn and says "Momentje, ik denk even mee.", in this order and in one
\* step; otherwise it ends without any output.  The mark of the spoken
\* acknowledgement is taken back only by a step that starts a turn, which
\* makes it at most one acknowledgement per turn.  When the say returns or
\* fails the timer ends, after ux.prompt_failed if it failed, and close has
\* not been handled because of it.
ProcessingTasks == {t \in Tasks : observer.tasks[t].kind = "processing"}

Brief(e) == <<e.op, e.name, e.arg>>

C22_Fired(corr) ==
    << <<"emit", "silence.timer_fired", corr, "processing", Null>>,
       <<"emit", "ux.delay_acknowledged", corr, "delay_ack.thinking", Null>>,
       <<"say", DelayAckPhrase, SessionCorr, None, Null>> >>

C22_Expiry(t) ==
    LET added == SubSeq(observer'.tasks[t].out, Len(observer.tasks[t].out) + 1,
                        Len(observer'.tasks[t].out))
    IN IF ~observer.tts_playing /\ ~observer.delay_ack_sent_for_turn
       THEN /\ Shapes(added) = C22_Fired(or_session_id(observer.current_turn_id))
            /\ observer'.tasks[t].pc = "say"
            /\ observer'.delay_ack_sent_for_turn
       ELSE /\ added = <<>>
            /\ observer'.tasks[t].pc = "done"

C22_SayOver(t) ==
    LET added == SubSeq(observer'.tasks[t].out, Len(observer.tasks[t].out) + 1,
                        Len(observer'.tasks[t].out))
        briefs == [k \in 1..Len(added) |-> Brief(added[k])]
        armed == <<"emit", "silence.timer_started", "user">>
    IN /\ observer'.tasks[t].pc = "done"
       /\ \/ briefs = <<armed>>
          \/ briefs = << <<"emit", "ux.prompt_failed", "delay_ack.thinking">>, armed >>
       /\ observer'.closed = observer.closed

C22_TurnStarts ==
    /\ Len(observer'.out) > Len(observer.out)
    /\ \E k \in Len(observer.out) + 1..Len(observer'.out) :
        observer'.out[k].name = "turn.started"

DelayAcknowledgedOncePerTurn ==
    [][/\ \A t \in ProcessingTasks :
            /\ observer.tasks[t].pc = "sleep" /\ observer'.tasks[t].pc # "sleep"
                    /\ observer'.tasks[t].pc # "cancelled"
                => C22_Expiry(t)
            /\ observer.tasks[t].pc = "say" /\ observer'.tasks[t].pc \notin {"say", "cancelled_in_say"}
                => C22_SayOver(t)
            /\ observer.tasks[t].pc = "sleep" /\ observer'.tasks[t].pc \in {"sleep", "cancelled"}
                => observer'.tasks[t].out = observer.tasks[t].out
       /\ observer.delay_ack_sent_for_turn /\ ~observer'.delay_ack_sent_for_turn
            => C22_TurnStarts
      ]_vars

\* C22 witness: in a second turn a second acknowledgement was spoken, its say
\* failed, and the timer ended after ux.prompt_failed.
SecondTurnAcknowledged ==
    \E t1, t2 \in ProcessingTasks :
        /\ t1 < t2
        /\ Len(observer.tasks[t1].out) >= 4
        /\ observer.tasks[t2].pc = "done"
        /\ Len(observer.tasks[t2].out) = 6
        /\ observer.tasks[t2].out[5].name = "ux.prompt_failed"
        /\ observer.tasks[t1].out[3].corr # observer.tasks[t2].out[3].corr

----------------------------------------------------------------------------
\* What the duration tasks do, in order.
WarningTasks == {t \in Tasks : observer.tasks[t].kind = "duration_warning"}
TimeoutTasks == {t \in Tasks : observer.tasks[t].kind = "duration_timeout"}
MAX_S == observer.silence.max_duration_seconds

Warned(t) ==
    /\ Len(observer.tasks[t].out) >= 3
    /\ Shape(observer.tasks[t].out[2]) = <<"emit", "call.duration_warning", SessionCorr, "15", Null>>
    /\ Shape(observer.tasks[t].out[3]) = <<"say", WarningPhrase, SessionCorr, None, Null>>

TimedOut(t) ==
    \E k \in 1..Len(observer.tasks[t].out) : observer.tasks[t].out[k].name = "call.ended"

WarningSequence ==
    << <<"sleep", None, SessionCorr, None, At((MAX_S - 20) * 1000)>>,
       <<"emit", "call.duration_warning", SessionCorr, "15", Null>>,
       <<"say", WarningPhrase, SessionCorr, None, Null>>,
       <<"emit", "ux.prompt_failed", SessionCorr, "duration_warning", Null>> >>

TimeoutSequence ==
    << <<"sleep", None, SessionCorr, None, At(MAX_S * 1000)>>,
       <<"emit", "call.ended", SessionCorr, "max_duration_reached", Null>>,
       <<"request_hangup", None, SessionCorr, None, Null>>,
       <<"aclose", None, SessionCorr, None, Null>> >>

\* C23 as stated: whenever the guard is enabled (MAX_S > 0), a timeout that
\* has fired was preceded by the warning.
WarningBeforeEveryTimeout ==
    MAX_S > 0 =>
        \A t \in TimeoutTasks : TimedOut(t) => \E w \in WarningTasks : w < t /\ Warned(w)

\* C23, the part that holds: the warning exists only when MAX_S > 20.  With MAX_S > 20 the
\* warning task emits call.duration_warning{remaining_seconds: 15} and says
\* the warning before the timeout task fires; with 0 < MAX_S <= 20 there is
\* no warning task and the timeout fires alone; the timeout task emits
\* call.ended{reason: max_duration_reached}, then requests hangup, then calls
\* aclose if and only if the request did not succeed; with MAX_S <= 0 arming
\* creates no task and emits nothing; and handling close leaves every
\* duration task over, after which it does nothing.
C23_Order ==
    /\ \A w \in WarningTasks : IsPrefix(Shapes(observer.tasks[w].out), WarningSequence)
    /\ \A t \in TimeoutTasks : Follows(t, TimeoutSequence)
    /\ MAX_S > 20 =>
        \A t \in TimeoutTasks : TimedOut(t) => \E w \in WarningTasks : w < t /\ Warned(w)
    /\ MAX_S <= 20 => WarningTasks = {}
    /\ MAX_S <= 0 =>
        /\ TimeoutTasks = {}
        /\ \A k \in 1..Len(observer.out) : observer.out[k].name # "call.duration_timer_started"
    /\ greeted /\ MAX_S > 0 => TimeoutTasks # {}
    /\ greeted /\ MAX_S > 20 => WarningTasks # {}

WarningOnlyForLongCalls ==
    [][/\ C23_Order'
       /\ Close =>
            /\ observer'.duration_warning_task = NoTask
            /\ observer'.duration_timeout_task = NoTask
            /\ \A t \in WarningTasks \cup TimeoutTasks :
                /\ observer'.tasks[t].pc \in Over
                /\ observer'.tasks[t].out = observer.tasks[t].out
       /\ \A t \in WarningTasks \cup TimeoutTasks :
            observer.tasks[t].pc \in Over => observer'.tasks[t] = observer.tasks[t]
      ]_vars

\* C23: with MAX_S = 20 the timeout task has run to its end, aclose included,
\* without any warning.
TimeoutWithoutWarning ==
    /\ MAX_S = 20
    /\ WarningTasks = {}
    /\ \E t \in TimeoutTasks :
        /\ observer.tasks[t].pc = "done"
        /\ Len(observer.tasks[t].out) = 4

----------------------------------------------------------------------------
\* C24: user_started_speaking emits barge_in.detected if and only if TTS is
\* playing, that is, the last of the tts.started and tts.stopped events is a
\* tts.started; and nothing else emits barge_in.detected.
TtsEvents(out) == {k \in 1..Len(out) : out[k].name \in {"tts.started", "tts.stopped"}}

Playing(out) ==
    \E k \in TtsEvents(out) :
        /\ out[k].name = "tts.started"
        /\ \A j \in TtsEvents(out) : j <= k

BargeInDetected == CountName(observer'.out, "barge_in.detected") - CountName(observer.out, "barge_in.detected")

BargeInIffPlaying ==
    [][/\ UserStartedSpeaking => BargeInDetected = (IF Playing(observer.out) THEN 1 ELSE 0)
       /\ BargeInDetected # 0 => UserStartedSpeaking
      ]_vars

\* C24 witness: the user started speaking after the agent had stopped, and
\* before that once while the agent was speaking: one barge_in.detected.
BargeInOnceOfTwo ==
    /\ observer.last_signal = "user_started_speaking"
    /\ ~Playing(observer.out)
    /\ CountName(observer.out, "barge_in.detected") = 1
    /\ nsig = 0

----------------------------------------------------------------------------
\* C25: every tts.stopped with cause barge_in comes after a barge_in.detected
\* with the same correlation id and carries a time_to_tts_stop_ms that is not
\* negative.
StopHasDetection ==
    \A k \in 1..Len(observer.out) :
        observer.out[k].name = "tts.stopped" /\ observer.out[k].arg = "barge_in" =>
            /\ observer.out[k].ms # Null
            /\ observer.out[k].ms[1] >= 0
            /\ \E j \in 1..k - 1 :
                /\ observer.out[j].name = "barge_in.detected"
                /\ observer.out[j].corr = observer.out[k].corr

----------------------------------------------------------------------------
\* C27: after n store operations the store holds min(n, max_events) events:
\* the most recently stored ones, in the order they were stored.
Min(a, b) == IF a <= b THEN a ELSE b

StoreHoldsNewest ==
    LET n == Len(events)
        held == event_store._events
    IN /\ Len(held) = Min(n, event_store._max_events)
       /\ \A k \in 1..Len(held) : held[k] = StoredEvent(events[n - Len(held) + k])

\* C27 witness: more events were stored than the store can hold, and the
\* store is full.
StoreOverflowed ==
    /\ event_store._max_events > 0
    /\ Len(events) > event_store._max_events
    /\ Len(event_store._events) = event_store._max_events

----------------------------------------------------------------------------
\* What a query has to return.  `given(x)` tells whether a filter counts as
\* given.
Selected(f, session_given, type_given, component_given) ==
    {k \in 1..Len(event_store._events) :
        LET e == event_store._events[k] IN
        /\ session_given => e.session_id = f.session_id
        /\ type_given => e.event_type = f.event_type
        /\ component_given => e.component = f.component
        /\ f.since # Null => f.since[1] <= e.ts
        /\ f.until # Null => e.ts <= f.until[1]}

Rank(S, k) == Cardinality({j \in S : j <= k})

FirstOf(S, limit_given, limit) ==
    IF limit_given THEN {k \in S : Rank(S, k) <= limit[1]} ELSE S

Returns(result, S) ==
    /\ Len(result) = Cardinality(S)
    /\ \A k \in S : result[Rank(S, k)] = to_dict(event_store._events[k])
    /\ \A i, j \in 1..Len(result) : i < j => result[i].ts <= result[j].ts

SessionOf(e) == IF "ts" \in DOMAIN e THEN e.session_id ELSE SessionId(e.session_id)

EmittedFor(s) == SelectSeq(events, LAMBDA e : SessionOf(e) = s)

StoredFor(s) == SelectSeq(events, LAMBDA e : "ts" \in DOMAIN e /\ e.session_id = s)

EventTypes(evs) == [k \in 1..Len(evs) |-> evs[k].event_type]

QueryFor(s) == query(event_store, Filters(s, None, None, Null, Null, Null))

SessionKeys == {SessionId(n) : n \in 1..Len(sessions)} \cup Rooms

EveryEmittedEventQueryable ==
    Len(events) <= event_store._max_events =>
        \A s \in SessionKeys : EventTypes(QueryFor(s)) = EventTypes(EmittedFor(s))

\* C26, the part that holds: the events of the control API, which are
\* emitted through observability/events.py, are returned in emission order.
ControlApiEventsQueryable ==
    Len(events) <= event_store._max_events =>
        \A s \in SessionKeys : EventTypes(QueryFor(s)) = EventTypes(StoredFor(s))

\* A session has events on stdout that the query does not return.
SessionEventsNotStored ==
    \E n \in 1..Len(sessions) :
        /\ EmittedFor(SessionId(n)) # <<>>
        /\ QueryFor(SessionId(n)) = <<>>
        /\ Len(events) <= event_store._max_events

\* C29: every hangup request emits control.command_received once, then
\* calls the provider's delete_room with its session_id as the room name,
\* then (once delete_room has ended) emits control.command_applied once with
\* the same command id as correlation_id; it answers 200 {status: ok} with
\* result ok exactly when delete_room returned, and otherwise 502
\* {detail: hangup_failed} with result error and error_class the class name
\* of what delete_room raised.  Nothing else emits control.* events.
Emitted(event_type) ==
    SelectSeq(events, LAMBDA e : "ts" \in DOMAIN e /\ e.event_type = event_type)

HangupDone == {k \in 1..Len(hangups) : hangups[k].pc = "done"}

HangupStartsRight(h) ==
    /\ Len(h.out) >= 2
    /\ h.out[1] = HangupStep("emit", "control.command_received", h.correlation_id, None, None)
    /\ h.out[2] = HangupStep("delete_room", h.session_id, None, None, None)

HangupEndsRight(h) ==
    /\ Len(h.out) = 4
    /\ h.out[3].op = "emit"
    /\ h.out[3].name = "control.command_applied"
    /\ h.out[3].correlation_id = h.correlation_id
    /\ h.out[4].op = "respond"
    /\ h.status = 200 <=> h.delete_room = "ok"
    /\ h.delete_room = "ok" =>
          /\ h.status = 200 /\ h.body = "ok" /\ h.out[4].name = "ok"
          /\ h.out[3].result = "ok" /\ h.out[3].error_class = None
    /\ h.delete_room # "ok" =>
          /\ h.status = 502 /\ h.body = "hangup_failed" /\ h.out[4].name = "hangup_failed"
          /\ h.out[3].result = "error" /\ h.out[3].error_class = h.delete_room

HangupEmitsReceivedThenApplied ==
    /\ \A k \in 1..Len(hangups) :
          /\ HangupStartsRight(hangups[k])
          /\ IF k \in HangupDone
             THEN HangupEndsRight(hangups[k])
             ELSE Len(hangups[k].out) = 2 /\ hangups[k].status = 0
    /\ Len(Emitted("control.command_received")) = Len(hangups)
    /\ Len(Emitted("control.command_applied")) = Cardinality(HangupDone)
    /\ \A i \in 1..Len(events) :
          ("ts" \in DOMAIN events[i] /\ events[i].event_type = "control.command_applied") =>
              \E k \in HangupDone :
                  /\ events[i].session_id = hangups[k].session_id
                  /\ events[i].correlation_id = hangups[k].correlation_id
                  /\ events[i].payload.result = hangups[k].out[3].result
                  /\ events[i].payload.error_class = hangups[k].out[3].error_class
                  /\ \E j \in 1..(i - 1) :
                        /\ "ts" \in DOMAIN events[j]
                        /\ events[j].event_type = "control.command_received"
                        /\ events[j].session_id = events[i].session_id
                        /\ events[j].correlation_id = events[i].correlation_id

\* One hangup succeeded and another failed.
HangupOkAndHangupFailed ==
    \E i, j \in HangupDone : hangups[i].status = 200 /\ hangups[j].status = 502

\* C30: when handle_error returns for a session, that session is ended
\* with the returned category as end_reason, and exactly one provider.event
\* carrying that category has been emitted for it.
HandleErrorReturned == calls' = calls + 1

ProviderEventEmitted(sid) ==
    /\ Len(events') = Len(events) + 1
    /\ SubSeq(events', 1, Len(events)) = events
    /\ LET e == events'[Len(events')]
       IN /\ e.event_type = "provider.event"
          /\ e.session_id = sid
          /\ e.category = callResult'

ErrorEndsSession ==
    [][ HandleErrorReturned =>
          \E sid \in 1..Len(sessions') :
              /\ ProviderEventEmitted(sid)
              /\ sessions'[sid].state = ENDED
              /\ sessions'[sid].end_reason = callResult' ]_vars

\* C30, the part that holds: handle_error emits exactly one provider.event
\* with the returned category, which is one of the fixed categories, and
\* leaves every session as it was.
ErrorEmitsOneProviderEvent ==
    [][ HandleErrorReturned =>
          /\ \E sid \in 1..Len(sessions) : ProviderEventEmitted(sid)
          /\ callResult' \in {AUTH_FAILED, MISCONFIGURED, NETWORK_ERROR, BUSY, NO_ANSWER,
                              REJECTED, RATE_LIMITED, CAPACITY_LIMITED, UNKNOWN_ERROR}
          /\ sessions' = sessions ]_vars

\* A provider error was handled for a session that is still not ended.
ErrorHandledSessionLive ==
    \E i \in 1..Len(events) :
        /\ "ts" \notin DOMAIN events[i]
        /\ events[i].event_type = "provider.event"
        /\ sessions[events[i].session_id].state # ENDED

\* C31: the classifier is total: for every error (empty message, integer
\* or None payload, no payload, any exception class) classify_error and
\* handle_error return one category of the closed set of ten, and
\* handle_error has emitted one provider.event carrying it for each call.
ProviderErrorCategory ==
    { AUTH_FAILED, MISCONFIGURED, NETWORK_ERROR, BUSY, NO_ANSWER, REJECTED, FAILED,
      RATE_LIMITED, CAPACITY_LIMITED, UNKNOWN_ERROR }

ClassifierTotal ==
    /\ calls > 0 => callResult \in ProviderErrorCategory
    /\ \A i \in 1..Len(events) :
          events[i].event_type = "provider.event" =>
              events[i].category \in ProviderErrorCategory

\* An error without a string message has been handled.
WeirdErrorHandled ==
    /\ lastError.arg.kind # "str"
    /\ Len(events) > 0
    /\ callResult \in {AUTH_FAILED, UNKNOWN_ERROR}

\* C32: classify_error returns the category of the first rule, in the order
\* auth_failed, network_error, busy, no_answer, rejected, rate_limited,
\* capacity_limited, misconfigured, that has a token occurring
\* case-insensitively in the message, and unknown_error when none has.
Occurs(m, tokens) == \E t \in tokens : contains(lower(m), t)

FirstRuleInStatedOrder(m) ==
    IF Occurs(m, {<<"a", "u", "t", "h">>,
                 <<"u", "n", "a", "u", "t", "h", "o", "r", "i", "z", "e", "d">>,
                 <<"4", "0", "1">>})
    THEN AUTH_FAILED
    ELSE IF Occurs(m, {<<"t", "i", "m", "e", "o", "u", "t">>,
                         <<"n", "e", "t", "w", "o", "r", "k">>,
                         <<"c", "o", "n", "n", "e", "c", "t", "i", "o", "n">>})
    THEN NETWORK_ERROR
    ELSE IF Occurs(m, {<<"4", "8", "6">>,
                         <<"b", "u", "s", "y">>})
    THEN BUSY
    ELSE IF Occurs(m, {<<"4", "8", "0">>,
                         <<"n", "o", " ", "a", "n", "s", "w", "e", "r">>})
    THEN NO_ANSWER
    ELSE IF Occurs(m, {<<"6", "0", "3">>,
                         <<"r", "e", "j", "e", "c", "t">>})
    THEN REJECTED
    ELSE IF Occurs(m, {<<"4", "2", "9">>,
                         <<"r", "a", "t", "e", " ", "l", "i", "m", "i", "t">>,
                         <<"t", "h", "r", "o", "t", "t", "l", "e">>})
    THEN RATE_LIMITED
    ELSE IF Occurs(m, {<<"5", "0", "3">>,
                         <<"c", "a", "p", "a", "c", "i", "t", "y">>})
    THEN CAPACITY_LIMITED
    ELSE IF Occurs(m, {<<"c", "o", "n", "f", "i", "g">>,
                         <<"m", "i", "s", "c", "o", "n", "f", "i", "g", "u", "r", "e", "d">>})
    THEN MISCONFIGURED
    ELSE UNKNOWN_ERROR

ClassifiedInStatedOrder ==
    calls > 0 => callResult = FirstRuleInStatedOrder(str(lastError))

\* C32, the part that holds: a message that matches exactly one rule, by a
\* token the statement lists, gets that rule's category.
RulesMatched(m) ==
    { c \in ProviderErrorCategory :
        \/ c = AUTH_FAILED /\ Occurs(m, {<<"a", "u", "t", "h">>, <<"4", "0", "1">>})
        \/ c = MISCONFIGURED /\ Occurs(m, {<<"c", "o", "n", "f", "i", "g">>})
        \/ c = NETWORK_ERROR /\ Occurs(m, {<<"n", "e", "t", "w", "o", "r", "k">>, <<"t", "i", "m", "e", "o", "u", "t">>, <<"c", "o", "n", "n", "e", "c", "t", "i", "o", "n">>})
        \/ c = BUSY /\ Occurs(m, {<<"b", "u", "s", "y">>, <<"4", "8", "6">>})
        \/ c = NO_ANSWER /\ Occurs(m, {<<"n", "o", " ", "a", "n", "s", "w", "e", "r">>, <<"n", "o", "a", "n", "s", "w", "e", "r">>, <<"4", "8", "0">>})
        \/ c = REJECTED /\ Occurs(m, {<<"r", "e", "j", "e", "c", "t">>, <<"6", "0", "3">>})
        \/ c = RATE_LIMITED /\ Occurs(m, {<<"r", "a", "t", "e", " ", "l", "i", "m", "i", "t">>, <<"4", "2", "9">>, <<"t", "h", "r", "o", "t", "t", "l", "e">>})
        \/ c = CAPACITY_LIMITED /\ Occurs(m, {<<"c", "a", "p", "a", "c", "i", "t", "y">>, <<"5", "0", "3">>}) }

ClassifiedBySingleRule ==
    (calls > 0 /\ Cardinality(RulesMatched(str(lastError))) = 1) =>
        callResult \in RulesMatched(str(lastError))

\* A message with a misconfiguration token and a network token was classified.
ConfigAndNetworkClassified ==
    /\ calls > 0
    /\ Occurs(str(lastError), {<<"c", "o", "n", "f", "i", "g">>})
    /\ Occurs(str(lastError), {<<"t", "i", "m", "e", "o", "u", "t">>})
    /\ ~Occurs(str(lastError), {<<"a", "u", "t", "h">>})

\* C33: when the message of the error contains secret, password or key (in
\* any letter case), the provider.event of handle_error carries the
\* redaction marker as detail, the same for every such error; otherwise
\* the detail is the message itself.
SecretTokens == {<<"s", "e", "c", "r", "e", "t">>, <<"p", "a", "s", "s", "w", "o", "r", "d">>, <<"k", "e", "y">>}

\* Errors that differ in the secret text only.
SecretErrors ==
    { ProviderError("Exception", StrArg(<<"s", "e", "c", "r", "e", "t", " ", "a", "b", "c">>)),
      ProviderError("Exception", StrArg(<<"s", "e", "c", "r", "e", "t", " ", "x", "y", "z">>)) }

DetailOf(error) == handle_error(<<>>, 1, error, "inbound").events[1].detail

DetailRedacted ==
    \A i \in 1..Len(events) :
        events[i].event_type = "provider.event" =>
            IF Occurs(str(lastError), SecretTokens)
            THEN /\ events[i].detail = REDACTED
                 /\ \A other \in SecretErrors : DetailOf(other) = events[i].detail
            ELSE events[i].detail = str(lastError)

\* An error whose message holds a token in upper case was handled and
\* redacted.
UpperCaseSecretRedacted ==
    /\ Len(events) > 0
    /\ events[1].detail = REDACTED
    /\ contains(str(lastError), <<"P", "A", "S", "S", "W", "O", "R", "D">>)

\* C35: every turn the Observer starts gets a turn_id later than every
\* turn_id it allocated before, also when two turns start within the same
\* millisecond.
TurnAllocated ==
    /\ nsig' = nsig - 1
    /\ observer'.last_signal \in {"user_speech_committed", "agent_thinking"}

TurnIdsStrictlyIncrease ==
    [][ TurnAllocated => observer'.current_turn_id > observer.current_turn_id ]_vars

\* C35, the part that holds: a turn_id is never earlier than the one
\* before it.
TurnIdsNeverDecrease ==
    [][ observer'.current_turn_id >= observer.current_turn_id ]_vars

\* C36: over every interleaving of the user-silence close sequence and the
\* maximum-duration timeout, the Observer emits at most one call.ended and
\* issues at most one hangup request.
DoneBy(name) ==
    {<<t, k>> \in Tasks \X (1..8) :
        k <= Len(observer.tasks[t].out) /\ observer.tasks[t].out[k].name = name}

HangupsBy ==
    {<<t, k>> \in Tasks \X (1..8) :
        k <= Len(observer.tasks[t].out) /\ observer.tasks[t].out[k].op = "request_hangup"}

AtMostOneCallEnded ==
    /\ Cardinality(DoneBy("call.ended")) <= 1
    /\ Cardinality(HangupsBy) <= 1

\* C37: a close sequence that has emitted call.ended{user_silence_timeout}
\* is waiting in its hangup request or in aclose, or has finished with the
\* hangup accepted or aclose called; it is never abandoned in between.
SilenceTasks == {t \in Tasks : observer.tasks[t].kind = "user_silence"}

EndedBySilence(t) ==
    \E k \in 1..Len(observer.tasks[t].out) :
        /\ observer.tasks[t].out[k].name = "call.ended"
        /\ observer.tasks[t].out[k].arg = "user_silence_timeout"

Aclosed(t) ==
    \E k \in 1..Len(observer.tasks[t].out) : observer.tasks[t].out[k].op = "aclose"

CloseSequenceCompletes ==
    \A t \in SilenceTasks :
        EndedBySilence(t) =>
            \/ observer.tasks[t].pc \in {"hangup", "aclose"}
            \/ observer.tasks[t].pc = "done"
               /\ (observer.tasks[t].cp_ok = "True" \/ Aclosed(t))

\* C37, the part that holds: a close sequence that is not cancelled runs to
\* its end, and one whose hangup request failed has called aclose.
UncancelledCloseCompletes ==
    \A t \in SilenceTasks :
        (EndedBySilence(t) /\ observer.tasks[t].pc = "done") =>
            (observer.tasks[t].cp_ok = "True" \/ Aclosed(t))

\* C38: for every session the webhook ingester emits at most one
\* call.ended, whose reason is the session's end_reason, and an ended
\* session keeps its end_reason and ended_at whatever webhook arrives next
\* (the first terminating webhook wins).
OneCallEndedPerSession(ss, evs) ==
    \A i \in 1..Len(ss) :
        LET ended == {k \in 1..Len(evs) : evs[k].event_type = "call.ended"
                                           /\ evs[k].session_id = i}
        IN /\ Cardinality(ended) <= 1
           /\ \A k \in ended : ss[i].state = ENDED /\ evs[k].reason = ss[i].end_reason

EndIsFinal ==
    \A i \in 1..Len(sessions) :
        sessions[i].state = ENDED =>
            /\ sessions'[i].state = ENDED
            /\ sessions'[i].end_reason = sessions[i].end_reason
            /\ sessions'[i].ended_at = sessions[i].ended_at

FirstTerminatingWebhookWins ==
    [][ OneCallEndedPerSession(sessions', events') /\ EndIsFinal ]_vars

\* A session ended by participant_left has since received a room_finished
\* for its room.
RoomFinishedAfterEnd ==
    \E i \in 1..Len(sessions) :
        /\ sessions[i].state = ENDED
        /\ sessions[i].end_reason = "participant_left"
        /\ lastReq.event = "room_finished"
        /\ lastReq.room = sessions[i].livekit_room
        /\ lastResp = 200

\* C39: a hangup request, whether delete_room succeeds or fails and whether
\* its session_id names a session of the registry or not, leaves every
\* session as it was; a session becomes ended only in the step of a
\* participant_left or room_finished webhook.
HangupHandled == hangups' # hangups

Named(h) ==
    {n \in 1..Len(sessions) :
        SessionId(n) = h.session_id \/ sessions[n].livekit_room = h.session_id}

HangupLeavesRegistryAlone ==
    [][ /\ HangupHandled => sessions' = sessions
        /\ EndedSessions(sessions') # EndedSessions(sessions) =>
              /\ nreq' = nreq + 1
              /\ lastReq'.event \in {"participant_left", "room_finished"}
      ]_vars

\* A hangup for a live session of the registry succeeded, one for a name the
\* registry does not know failed, and the live session is still not ended.
HangupAnsweredSessionLive ==
    \E i, j \in HangupDone :
        /\ hangups[i].status = 200
        /\ \E n \in Named(hangups[i]) : sessions[n].state # ENDED
        /\ hangups[j].status = 502
        /\ Named(hangups[j]) = {}

\* C40: the time_to_tts_stop_ms of a tts.stopped with cause barge_in is the
\* time since a barge_in.detected of the same TTS segment, that is, one with
\* no tts.stopped between it and this stop.
StopsBetween(out, j, k) == {i \in (j + 1)..(k - 1) : out[i].name = "tts.stopped"}

MeasuredWithinSegment ==
    \A k \in 1..Len(observer.out) :
        ( /\ observer.out[k].name = "tts.stopped"
          /\ observer.out[k].arg = "barge_in"
          /\ observer.out[k].ms # Null ) =>
            \E j \in 1..(k - 1) :
                /\ observer.out[j].name = "barge_in.detected"
                /\ observer.out[k].ms[1] = observer.out[k].ts - observer.out[j].ts
                /\ StopsBetween(observer.out, j, k) = {}

\* C40, the part that holds: the time is measured from the latest
\* barge_in.detected before the stop.
MeasuredFromLatestDetection ==
    \A k \in 1..Len(observer.out) :
        ( /\ observer.out[k].name = "tts.stopped"
          /\ observer.out[k].arg = "barge_in"
          /\ observer.out[k].ms # Null ) =>
            \E j \in 1..(k - 1) :
                /\ observer.out[j].name = "barge_in.detected"
                /\ observer.out[k].ms[1] = observer.out[k].ts - observer.out[j].ts
                /\ \A i \in (j + 1)..(k - 1) : observer.out[i].name # "barge_in.detected"

\* C34: a failure of the sink inside emit does not reach the caller: a hangup
\* request that has been answered called delete_room and was answered as
\* hangup_call answers, given how delete_room ended, when its emits succeed.
AnswerWhenEmissionSucceeds(h) ==
    LET w == [sessions |-> sessions, events |-> events, event_store |-> event_store]
        r == hangup_call_applied(w, hangup_call_received(w, h.session_id, clock).h,
                                 h.delete_room, clock).h
    IN <<r.status, r.body>>

SinkFailureDoesNotPropagate ==
    \A k \in 1..Len(hangups) :
        hangups[k].pc = "done" =>
            /\ hangups[k].delete_room \in DeleteRoomOutcomes
            /\ <<hangups[k].status, hangups[k].body>> = AnswerWhenEmissionSucceeds(hangups[k])

\* C34, the part that holds: a request whose emits all returned is answered
\* by how delete_room ended, whatever failed in the requests around it.
RaisedIn(h) == {i \in 1..Len(h.out) : h.out[i].op = "raise"}

UnfailedRequestUnaffected ==
    \A k \in 1..Len(hangups) :
        (hangups[k].pc = "done" /\ RaisedIn(hangups[k]) = {}) =>
            /\ hangups[k].delete_room \in DeleteRoomOutcomes
            /\ <<hangups[k].status, hangups[k].body>> = AnswerWhenEmissionSucceeds(hangups[k])

====
